---- MODULE Spec2Model ----
(***************************************************************************)
(* Live transcription sessions of MeetingMind (routes/live.js) together    *)
(* with the manual meeting save of routes/meetings.js.                     *)
(*                                                                         *)
(* The server is one Node.js process: a handler runs without interruption  *)
(* until it returns or reaches an `await` on remote I/O.  Each handler is  *)
(* therefore one action up to its first await on a provider call, and one  *)
(* more action for the part that runs when the provider call settles.      *)
(* The requests modelled are those that passed the route's middleware      *)
(* (rate limiter, requireAuth, multer); title and participants do not     *)
(* influence the state modelled here.                                      *)
(*                                                                         *)
(* Beside the live routes the module holds the extract counters            *)
(* (SpecUsage), the audio temp files of the upload, chunk and import       *)
(* handlers (SpecFiles) and the lifetime flag of the users rows with its   *)
(* trigger (SpecUsers), the billing webhook (SpecBilling), the tolerant    *)
(* JSON decoder (SpecJson), the cross-meeting insights (SpecInsights),     *)
(* the chunk timestamps (SpecChunks), the rate limiter (SpecLimit), the    *)
(* recorder cycle of the live page (SpecRecorder), the transcript the page *)
(* shows (SpecDisplay) and the plan of a users row under admin upgrades    *)
(* and webhook events (SpecAccounts).  The clock only runs in              *)
(* SpecInsights, SpecChunks and SpecLimit.  Each specification moves its   *)
(* own variables and leaves the others as Init set them.                   *)
(*                                                                         *)
(* For every handler an operator (StartReply, ChunkReply, ...) gives the   *)
(* response a request gets in the current state.  A request that is        *)
(* answered without any write leaves every variable as it is; `resp` holds *)
(* the response of the last step that wrote to the store or the registry   *)
(* or that settled a suspended handler.                                    *)
(***************************************************************************)
EXTENDS Integers, Sequences, FiniteSets, Bags, TLC

\* ---------------------------------------------------------------- bounds
MaxSessions == 2
MaxSegments == 2
MaxMeetings == 4
MaxInflight == 2
MaxConns == 1
MaxPushConns == 2
MaxPushSessions == 1
MaxMonth == 2
MaxExtracts == 4
MaxRuns == 2
MaxCheckouts == 2
MaxOwnedSessions == 1
MaxOwnedMeetings == 2
MaxHintSessions == 1
HintMeetings == 5
InsightMeetings == 2
MaxInsightMeetings == 3
MaxClock == 2
MaxChunkSessions == 1
MaxChunkConns == 1
MaxLimited == 5
MaxRecorders == 4
MaxTimers == 2
MaxLimitClock == 3
SmallWindowMs == 1
SmallStartMax == 1
SmallExtractMax == 2
MaxTaskLen == 1
MaxEmailLen == 2
MaxJsonLen == 40
MaxTextLen == 3

\* ------------------------------------------------------------- constants
NULL == -1
FreeStorageLimit == 3
MockSegmentCount == 20
FreeLifetimeLimit == 5
BasicMonthlyLimit == 50
ProMonthlyLimit == 100
KeywordLimit == 20
RecentSegmentLimit == 24
PastMeetingLimit == 20
HintLimit == 3
MinSharedKeywords == 2
SharedTopicLimit == 5
AllSharedLimit == 6
DetailLimit == 5
NewTopicLimit == 8

\* users rows: user 1 on the free plan, user 2 on a paid plan
Users == {1, 2}
UserPlan(u) == IF u = 1 THEN "free" ELSE "ltd"

\* MEETING_STORAGE_LIMITS: free: 3, every paid plan: null (unlimited)
MEETING_STORAGE_LIMITS(p) == IF p = "free" THEN FreeStorageLimit ELSE NULL

\* A text is a sequence of characters; " " stands for any whitespace.
IsSpace(c) == c = " "

RECURSIVE TrimLeft(_)
TrimLeft(t) == IF t # <<>> /\ IsSpace(Head(t)) THEN TrimLeft(Tail(t)) ELSE t

RECURSIVE TrimRight(_)
TrimRight(t) ==
  IF t # <<>> /\ IsSpace(t[Len(t)]) THEN TrimRight(SubSeq(t, 1, Len(t) - 1)) ELSE t

\* trim that returns the text as it is
Trim_Identity(t) == t

\* String.prototype.trim
Trim(t) == TrimRight(TrimLeft(t))

\* segments.map(s => s.text).join('\n\n')
RECURSIVE JoinBlankLine(_)
JoinBlankLine(texts) ==
  IF texts = <<>> THEN <<>>
  ELSE IF Len(texts) = 1 THEN texts[1]
  ELSE texts[1] \o <<"\n", "\n">> \o JoinBlankLine(Tail(texts))

\* What the speech-to-text provider may return for a chunk (result.text).
WhisperTexts == { <<>>, <<" ">>, <<" ", "a">>, <<"b">> }

\* MOCK_SEGMENTS[i]: twenty fixed non-empty sentences, one token each here.
MOCK_SEGMENTS(i) ==
  << <<"m00">>, <<"m01">>, <<"m02">>, <<"m03">>, <<"m04">>,
     <<"m05">>, <<"m06">>, <<"m07">>, <<"m08">>, <<"m09">>,
     <<"m10">>, <<"m11">>, <<"m12">>, <<"m13">>, <<"m14">>,
     <<"m15">>, <<"m16">>, <<"m17">>, <<"m18">>, <<"m19">> >>[i + 1]

\* Extraction records as stored in meetings.action_items.
EmptyExtraction == [action_items |-> <<>>, follow_up_email |-> <<>>]
MOCK_EXTRACTION == [action_items |-> <<"mock_item">>, follow_up_email |-> <<"mock_mail">>]
ModelExtraction == [action_items |-> <<"item">>, follow_up_email |-> <<"mail">>]

\* Notes a client may post to POST /api/meetings.
SavedNotes == <<"n">>

VARIABLES
  env,                 \* process.env: MOCK_MODE, OPENAI_API_KEY, CLAUDE_API_KEY
  plan,                \* users.plan
  meetings,            \* table meetings, index = id
  live_sessions,       \* table live_sessions, index = id
  transcript_segments, \* table transcript_segments, in insertion order
  activeStreams,       \* Map session_id -> connection
  conns,               \* every SSE response ever opened, index = connection
  mockSegmentIndex,    \* module-level counter of live.js
  inflight,            \* handlers suspended at an await on a provider call
  resp                 \* the HTTP response sent by the last step that wrote

\* the extract counters of routes/meetings.js
VARIABLES
  usage,               \* table usage: (user_id, month) -> extracts
  month,               \* getCurrentMonth(), counted from the start of the process
  extractRequests      \* number of extract requests that reached the extractor

usageVars == <<usage, month, extractRequests>>

\* the audio temp files of the handlers that answered last
VARIABLES
  fileRuns             \* per handler run: paths stored and paths unlinked

fileVars == <<fileRuns>>

\* the lifetime flag of the users rows and the trigger that guards it
VARIABLES
  is_lifetime,            \* users.is_lifetime
  protect_lifetime_flag   \* the trigger exists

\* the billing columns of the users rows and the checkout sessions open at Stripe
VARIABLES
  stripe_customer_id,      \* users.stripe_customer_id
  stripe_subscription_id,  \* users.stripe_subscription_id
  subscription_status,     \* users.subscription_status
  checkouts                \* checkout sessions created and not yet completed

billingVars == <<stripe_customer_id, stripe_subscription_id, subscription_status,
                 checkouts>>

userVars == <<is_lifetime, protect_lifetime_flag, billingVars>>

\* the text of a model response and what safeJsonParse made of it
VARIABLES
  rawText,             \* message.content[0].text
  result               \* the value returned, the exception thrown, or nothing yet

jsonVars == <<rawText, result>>

\* the clock that CURRENT_TIMESTAMP and Date.now() read
VARIABLES
  now                  \* the time since the start of the process

clockVars == <<now>>

\* the rate limiters of middleware/rateLimit.js
VARIABLES
  hits,                \* per limiter and client IP, the entry of the Map hits
  limited              \* the requests the limiters have answered, in order

limitVars == <<hits, limited>>

\* the live-recording page of the browser (its script is in unnamed/part_008)
VARIABLES
  client,               \* the variables of the page script and its recorders and timers
  liveTranscript,       \* the data-index of the segments shown, in order
  delivered            \* per push connection, the number of events the page has received

clientVars == <<client, liveTranscript, delivered>>

vars == <<env, plan, meetings, live_sessions, transcript_segments,
          activeStreams, conns, mockSegmentIndex, inflight, resp, usageVars, fileVars,
          userVars, jsonVars, clockVars, limitVars, clientVars>>

\* ------------------------------------------------------------ responses
Reply(op, u, sid, status, error) ==
  [op |-> op, user |-> u, sid |-> sid, status |-> status, error |-> error,
   session_id |-> NULL, segment_index |-> NULL, silent |-> FALSE,
   meeting_id |-> NULL, message |-> "", session_status |-> "",
   segment_count |-> NULL]

\* a node of a JSON value
Node(t, str, items) == [t |-> t, s |-> str, items |-> items]

\* safeJsonParse was not called yet
NoResult == [ok |-> FALSE, v |-> Node("none", <<>>, <<>>)]

\* the last step sent no response
NoResp == Reply("none", NULL, NULL, NULL, "")

\* the handler does not answer yet: it is suspended at an await
Suspended(op, u, sid) == Reply(op, u, sid, NULL, "")

\* ------------------------------------------------------------- queries
SessionIds == 1..Len(live_sessions)

\* SELECT COUNT(*) FROM meetings WHERE user_id = ?
MeetingCount(u) == Cardinality({m \in 1..Len(meetings) : meetings[m].user_id = u})

checkMeetingStorageLimit(u) ==
  LET max == MEETING_STORAGE_LIMITS(plan[u])
  IN  IF max = NULL THEN TRUE ELSE ~(MeetingCount(u) >= max)

\* SELECT id FROM live_sessions WHERE user_id = ? AND status = 'active'
ActiveSessionsOf(u) ==
  {s \in SessionIds : live_sessions[s].user_id = u /\ live_sessions[s].status = "active"}

FirstActiveSession(u) ==
  CHOOSE s \in ActiveSessionsOf(u) : \A t \in ActiveSessionsOf(u) : s <= t

\* SELECT * FROM live_sessions WHERE id = ? AND user_id = ?
getOwnedSession(sid, u) ==
  IF sid \in SessionIds /\ live_sessions[sid].user_id = u THEN sid ELSE NULL

SegmentsOf(sid) == SelectSeq(transcript_segments, LAMBDA r : r.session_id = sid)

RemoveAt(s, i) == SubSeq(s, 1, i - 1) \o SubSeq(s, i + 1, Len(s))

\* ... ORDER BY segment_index ASC
RECURSIVE OrderBySegmentIndex(_)
OrderBySegmentIndex(rows) ==
  IF rows = <<>> THEN <<>>
  ELSE LET k == CHOOSE i \in 1..Len(rows) : \A j \in 1..Len(rows) :
                  \/ rows[i].segment_index < rows[j].segment_index
                  \/ rows[i].segment_index = rows[j].segment_index /\ i <= j
       IN  <<rows[k]>> \o OrderBySegmentIndex(RemoveAt(rows, k))

SegmentsOrdered(sid) == OrderBySegmentIndex(SegmentsOf(sid))

TextsOf(rows) == [i \in 1..Len(rows) |-> rows[i].text]

\* NextSegmentIndex without WHERE session_id = ?
NextSegmentIndex_AllSessions(sid) == Len(transcript_segments)

\* SELECT MAX(segment_index) ... ; max_idx !== null ? max_idx + 1 : 0
NextSegmentIndex(sid) ==
  LET rows == SegmentsOf(sid)
  IN  IF rows = <<>> THEN 0
      ELSE (CHOOSE m \in {rows[i].segment_index : i \in 1..Len(rows)} :
              \A i \in 1..Len(rows) : rows[i].segment_index <= m) + 1

\* --------------------------------------------------------- push channel
SegmentEvent(idx, ts) ==
  [event |-> "data", segment_index |-> idx, timestamp_ms |-> ts]
NamedEvent(name) == [event |-> name, segment_index |-> NULL, timestamp_ms |-> NULL]

\* pushSegment / pushEvent: write to the registered response unless ended
PushTo(cs, sid, ev) ==
  IF sid \in DOMAIN activeStreams /\ ~cs[activeStreams[sid]].writableEnded
  THEN [cs EXCEPT ![activeStreams[sid]].log = Append(@, ev)]
  ELSE cs

MapDelete(m, k) == [x \in (DOMAIN m) \ {k} |-> m[x]]

\* ------------------------------------------------ rate limiters
\* startLimiter of routes/live.js and extractLimiter of routes/meetings.js
Limiters == {"startLimiter", "extractLimiter"}

\* req.ip
IPs == {1, 2}

\* hits.get(key) is undefined
NoEntry == [start |-> NULL, count |-> 0]

\* ------------------------------------------------ live-recording page
\* the page before Start Recording is clicked: no recorder, no timer, nothing
\* sent
SetupPage ==
  [phase |-> "setup",        \* setup | session | stopping | processing
   isPaused |-> FALSE, isStopping |-> FALSE, audioStream |-> FALSE,
   sessionId |-> FALSE,      \* the page holds a session id
   mediaRecorder |-> NULL,   \* index into recorders
   recorders |-> <<>>,       \* every MediaRecorder created
   captureTimers |-> 0,      \* pending setTimeout(captureOneChunk, 1000)
   stopTimers |-> 0,         \* pending 5 s timers of captureOneChunk
   chunkCounter |-> 0,
   requests |-> <<>>]        \* the requests the page has sent, in order

\* ------------------------------------------------------------------ Init
\* A process without OPENAI_API_KEY but with CLAUDE_API_KEY behaves like the
\* one with neither key: no chunk is transcribed, so no stop reaches the
\* extractor.
Environments ==
  { [MOCK_MODE |-> TRUE,  OPENAI_API_KEY |-> FALSE, CLAUDE_API_KEY |-> FALSE],
    [MOCK_MODE |-> FALSE, OPENAI_API_KEY |-> TRUE,  CLAUDE_API_KEY |-> TRUE],
    [MOCK_MODE |-> FALSE, OPENAI_API_KEY |-> TRUE,  CLAUDE_API_KEY |-> FALSE],
    [MOCK_MODE |-> FALSE, OPENAI_API_KEY |-> FALSE, CLAUDE_API_KEY |-> FALSE] }

Init ==
  /\ env \in Environments
  /\ plan = [u \in Users |-> UserPlan(u)]
  /\ meetings = <<>>
  /\ live_sessions = <<>>
  /\ transcript_segments = <<>>
  /\ activeStreams = <<>>
  /\ conns = <<>>
  /\ mockSegmentIndex = 0
  /\ inflight = EmptyBag
  /\ resp = NoResp
  /\ usage = <<>>
  /\ month = 1
  /\ extractRequests = 0
  /\ fileRuns = <<>>
  /\ is_lifetime = [u \in Users |-> IF plan[u] \in {"ltd", "fltd"} THEN 1 ELSE 0]
  /\ protect_lifetime_flag = TRUE
  /\ stripe_customer_id = [u \in Users |-> NULL]
  /\ stripe_subscription_id = [u \in Users |-> NULL]
  /\ subscription_status = [u \in Users |-> "none"]
  /\ checkouts = {}
  /\ rawText = <<>>
  /\ result = NoResult
  /\ now = 0
  /\ client = SetupPage
  /\ liveTranscript = <<>>
  /\ delivered = [c \in 1..MaxPushConns |-> 0]
  /\ hits = [l \in Limiters |-> [ip \in IPs |-> NoEntry]]
  /\ limited = <<>>

\* ------------------------------------------------- POST /api/live/start
\* StartReply without the query for an active session
StartReply_NoActiveGuard(u) ==
  IF ~checkMeetingStorageLimit(u)
  THEN Reply("start", u, NULL, 403, "meeting_limit")
  ELSE [Reply("start", u, NULL, 201, "") EXCEPT !.session_id = Len(live_sessions) + 1]

StartReply(u) ==
  IF ~checkMeetingStorageLimit(u)
  THEN Reply("start", u, NULL, 403, "meeting_limit")
  ELSE IF ActiveSessionsOf(u) # {}
  THEN [Reply("start", u, NULL, 409, "session_active")
          EXCEPT !.session_id = FirstActiveSession(u)]
  ELSE [Reply("start", u, NULL, 201, "") EXCEPT !.session_id = Len(live_sessions) + 1]

Start(u) ==
  LET r == StartReply(u)
  IN  IF r.status = 201
      THEN /\ Len(live_sessions) < MaxSessions
           /\ live_sessions' = Append(live_sessions,
                [user_id |-> u, status |-> "active", ended_at |-> "null",
                 meeting_id |-> NULL])
           /\ mockSegmentIndex' = 0
           /\ resp' = r
           /\ UNCHANGED <<clientVars, limitVars, clockVars, jsonVars, userVars, fileVars, usageVars, env, plan, meetings, transcript_segments, activeStreams,
                          conns, inflight>>
      ELSE UNCHANGED vars

\* -------------------------------------------- GET /api/live/:id/stream
StreamReply(u, sid) ==
  IF getOwnedSession(sid, u) = NULL
  THEN Reply("stream", u, sid, 404, "Session not found")
  ELSE IF live_sessions[sid].status # "active"
  THEN Reply("stream", u, sid, 400, "Session is not active")
  ELSE Reply("stream", u, sid, 200, "")

\* Replay that writes nothing
Replay_Nothing(sid) == <<>>

\* lines 284-296: the events written for the segments stored already
Replay(sid) ==
  LET existing == SegmentsOrdered(sid)
  IN  [i \in 1..Len(existing) |-> SegmentEvent(existing[i].segment_index,
                                              existing[i].timestamp_ms)]

Stream(u, sid) ==
  LET r == StreamReply(u, sid)
  IN  IF r.status = 200
      THEN /\ conns' = Append(conns,
                [session |-> sid, writableEnded |-> FALSE, closed |-> FALSE,
                 keepaliveTimer |-> TRUE,
                 log |-> <<NamedEvent("connected")>> \o Replay(sid)])
           /\ activeStreams' = (sid :> (Len(conns) + 1)) @@ activeStreams
           /\ resp' = r
           /\ UNCHANGED <<clientVars, limitVars, clockVars, jsonVars, userVars, fileVars, usageVars, env, plan, meetings, live_sessions, transcript_segments,
                          mockSegmentIndex, inflight>>
      ELSE UNCHANGED vars

\* req.on('close') of a stream request: the client went away, or the socket
\* closed after the server ended the response
StreamClose(c) ==
  /\ c \in 1..Len(conns)
  /\ ~conns[c].closed
  /\ conns' = [conns EXCEPT ![c].closed = TRUE, ![c].keepaliveTimer = FALSE]
  /\ activeStreams' = MapDelete(activeStreams, conns[c].session)
  /\ resp' = NoResp
  /\ UNCHANGED <<clientVars, limitVars, clockVars, jsonVars, userVars, fileVars, usageVars, env, plan, meetings, live_sessions, transcript_segments,
                 mockSegmentIndex, inflight>>

\* ------------------------------------------- POST /api/live/:id/chunk
\* ChunkSettledReply that does not look at the failure of the provider call
ChunkSettledReply_IgnoreFailure(u, sid, ok, text) ==
  IF Len(Trim(text)) = 0
  THEN [Reply("chunk", u, sid, 200, "") EXCEPT !.silent = TRUE]
  ELSE [Reply("chunk", u, sid, 200, "") EXCEPT !.segment_index = NextSegmentIndex(sid)]

\* lines 347-377: the response once the transcription has settled;
\* ok = FALSE when transcribeChunk (or the rename before it) threw
ChunkSettledReply(u, sid, ok, text) ==
  IF ~ok
  THEN Reply("chunk", u, sid, 500, "Transcription failed for this chunk")
  ELSE IF Len(Trim(text)) = 0
  THEN [Reply("chunk", u, sid, 200, "") EXCEPT !.silent = TRUE]
  ELSE [Reply("chunk", u, sid, 200, "") EXCEPT !.segment_index = NextSegmentIndex(sid)]

\* req.body.timestamp_ms, a form field: its characters, or undefined when the
\* form has no such field
Undefined == <<"undefined">>

Digits == {"0", "1", "2", "3", "4", "5", "6", "7", "8", "9"}

DigitValue(c) ==
  CASE c = "0" -> 0 [] c = "1" -> 1 [] c = "2" -> 2 [] c = "3" -> 3 [] c = "4" -> 4
    [] c = "5" -> 5 [] c = "6" -> 6 [] c = "7" -> 7 [] c = "8" -> 8 [] c = "9" -> 9

\* the value of the longest prefix of digits of cs, read after the value acc
RECURSIVE ParseDigits(_, _)
ParseDigits(cs, acc) ==
  IF cs = <<>> \/ Head(cs) \notin Digits THEN acc
  ELSE ParseDigits(Tail(cs), 10 * acc + DigitValue(Head(cs)))

RECURSIVE TrimStart(_)
TrimStart(cs) ==
  IF cs # <<>> /\ Head(cs) \in {" ", "\n"} THEN TrimStart(Tail(cs)) ELSE cs

NaN == [nan |-> TRUE, n |-> 0]

\* parseInt(string) for a decimal text: leading white space, a sign, then
\* digits up to the first character that is not one; NaN without a digit
parseInt(string) ==
  LET cs == TrimStart(string)
      signed == cs # <<>> /\ Head(cs) \in {"+", "-"}
      ds == IF signed THEN Tail(cs) ELSE cs
  IN  IF ds = <<>> \/ Head(ds) \notin Digits THEN NaN
      ELSE [nan |-> FALSE,
            n |-> IF signed /\ Head(cs) = "-" THEN 0 - ParseDigits(ds, 0)
                  ELSE ParseDigits(ds, 0)]

\* Date.now(), in the unit of now
DateNow == now

\* line 325: parseInt(req.body.timestamp_ms) || Date.now()
timestampMs(timestamp_ms) ==
  LET parsed == parseInt(timestamp_ms)
  IN  IF parsed.nan \/ parsed.n = 0 THEN DateNow ELSE parsed.n

\* lines 358-372: insert the segment and push it, when the reply carries an index
ChunkStore(r, text, ts) ==
  IF r.segment_index = NULL
  THEN UNCHANGED <<transcript_segments, conns>>
  ELSE /\ Len(transcript_segments) < MaxSegments
       /\ transcript_segments' = Append(transcript_segments,
            [session_id |-> r.sid, segment_index |-> r.segment_index,
             text |-> Trim(text), timestamp_ms |-> ts])
       /\ conns' = PushTo(conns, r.sid, SegmentEvent(r.segment_index, ts))

MockText == MOCK_SEGMENTS(mockSegmentIndex % MockSegmentCount)

\* ChunkReply without the check of the session's status
ChunkReply_NoStatusCheck(u, sid, hasFile) ==
  IF getOwnedSession(sid, u) = NULL
  THEN Reply("chunk", u, sid, 404, "Session not found")
  ELSE IF ~hasFile
  THEN Reply("chunk", u, sid, 400, "Audio chunk is required")
  ELSE IF env.MOCK_MODE
  THEN ChunkSettledReply(u, sid, TRUE, MockText)
  ELSE IF ~env.OPENAI_API_KEY
  THEN ChunkSettledReply(u, sid, FALSE, <<>>)
  ELSE Suspended("chunk", u, sid)

\* the response of the handler's first run, or Suspended at `await transcribeChunk`
ChunkReply(u, sid, hasFile) ==
  IF getOwnedSession(sid, u) = NULL
  THEN Reply("chunk", u, sid, 404, "Session not found")
  ELSE IF live_sessions[sid].status # "active"
  THEN Reply("chunk", u, sid, 400, "Session is not active")
  ELSE IF ~hasFile
  THEN Reply("chunk", u, sid, 400, "Audio chunk is required")
  ELSE IF env.MOCK_MODE
  THEN ChunkSettledReply(u, sid, TRUE, MockText)
  ELSE IF ~env.OPENAI_API_KEY
  THEN ChunkSettledReply(u, sid, FALSE, <<>>)
  ELSE Suspended("chunk", u, sid)

Chunk(u, sid, hasFile, timestamp_ms) ==
  LET r == ChunkReply(u, sid, hasFile)
  IN  IF r.status = NULL
      THEN /\ BagCardinality(inflight) < MaxInflight
           /\ inflight' = inflight (+) SetToBag({[op |-> "chunk", user |-> u,
                                                  sid |-> sid, segments |-> <<>>,
                                                  timestampMs |-> timestampMs(timestamp_ms)]})
           /\ resp' = NoResp
           /\ UNCHANGED <<clientVars, limitVars, clockVars, jsonVars, userVars, fileVars, usageVars, env, plan, meetings, live_sessions, transcript_segments,
                          activeStreams, conns, mockSegmentIndex>>
      ELSE IF r.status = 200
      THEN /\ ChunkStore(r, MockText, timestampMs(timestamp_ms))
           /\ mockSegmentIndex' = mockSegmentIndex + 1
           /\ resp' = r
           /\ UNCHANGED <<clientVars, limitVars, clockVars, jsonVars, userVars, fileVars, usageVars, env, plan, meetings, live_sessions, activeStreams, inflight>>
      ELSE UNCHANGED vars

\* the provider call of a suspended chunk handler settles
ChunkTranscribed(h, ok, text) ==
  /\ h \in BagToSet(inflight)
  /\ h.op = "chunk"
  /\ LET r == ChunkSettledReply(h.user, h.sid, ok, text)
     IN  /\ ChunkStore(r, text, h.timestampMs)
         /\ resp' = r
  /\ inflight' = inflight (-) SetToBag({h})
  /\ UNCHANGED <<clientVars, limitVars, clockVars, jsonVars, userVars, fileVars, usageVars, env, plan, meetings, live_sessions, activeStreams,
                 mockSegmentIndex>>

\* -------------------------------------------- POST /api/live/:id/stop
\* lines 420-463: the response of a stop that saves a meeting
StopSavedReply(u, sid) ==
  [Reply("stop", u, sid, 200, "") EXCEPT !.meeting_id = Len(meetings) + 1]

\* lines 451-461: save the meeting and complete the session
StopSave(r, segments, extraction) ==
  /\ Len(meetings) < MaxMeetings
  /\ meetings' = Append(meetings,
       [user_id |-> r.user, raw_notes |-> JoinBlankLine(TextsOf(segments)),
        action_items |-> extraction, created_at |-> now])
  /\ live_sessions' = [live_sessions EXCEPT ![r.sid] =
       [@ EXCEPT !.status = "completed", !.ended_at = "now",
                 !.meeting_id = r.meeting_id]]

\* CloseStream that leaves the entry in the registry
CloseStream_KeepEntry(sid) ==
  LET pushed == PushTo(conns, sid, NamedEvent("stopped"))
  IN  IF sid \in DOMAIN activeStreams
      THEN /\ conns' = [pushed EXCEPT ![activeStreams[sid]].keepaliveTimer = FALSE,
                                      ![activeStreams[sid]].writableEnded = TRUE]
           /\ UNCHANGED activeStreams
      ELSE UNCHANGED <<conns, activeStreams>>

\* lines 398-405: tell the subscriber, end its response, drop the entry
CloseStream(sid) ==
  LET pushed == PushTo(conns, sid, NamedEvent("stopped"))
  IN  IF sid \in DOMAIN activeStreams
      THEN /\ conns' = [pushed EXCEPT ![activeStreams[sid]].keepaliveTimer = FALSE,
                                      ![activeStreams[sid]].writableEnded = TRUE]
           /\ activeStreams' = MapDelete(activeStreams, sid)
      ELSE UNCHANGED <<conns, activeStreams>>

\* StopReply without the branch for a session that has no segment
StopReply_NoEmptyCheck(u, sid) ==
  IF getOwnedSession(sid, u) = NULL
  THEN Reply("stop", u, sid, 404, "Session not found")
  ELSE IF live_sessions[sid].status # "active"
  THEN Reply("stop", u, sid, 400, "Session is not active")
  ELSE IF env.MOCK_MODE \/ ~env.CLAUDE_API_KEY
  THEN StopSavedReply(u, sid)
  ELSE Suspended("stop", u, sid)

\* the response of the handler's first run, or Suspended at `await messages.create`
StopReply(u, sid) ==
  IF getOwnedSession(sid, u) = NULL
  THEN Reply("stop", u, sid, 404, "Session not found")
  ELSE IF live_sessions[sid].status # "active"
  THEN Reply("stop", u, sid, 400, "Session is not active")
  ELSE IF Len(SegmentsOf(sid)) = 0
  THEN [Reply("stop", u, sid, 200, "") EXCEPT !.message = "No transcript was captured."]
  ELSE IF env.MOCK_MODE \/ ~env.CLAUDE_API_KEY
  THEN StopSavedReply(u, sid)
  ELSE Suspended("stop", u, sid)

Stop(u, sid) ==
  LET r == StopReply(u, sid)
      segments == SegmentsOrdered(sid)
  IN  IF r.status = NULL
      THEN /\ BagCardinality(inflight) < MaxInflight
           /\ CloseStream(sid)
           /\ inflight' = inflight (+) SetToBag({[op |-> "stop", user |-> u,
                                                  sid |-> sid, segments |-> segments,
                                                  timestampMs |-> NULL]})
           /\ resp' = NoResp
           /\ UNCHANGED <<clientVars, limitVars, clockVars, jsonVars, userVars, fileVars, usageVars, env, plan, meetings, live_sessions, transcript_segments,
                          mockSegmentIndex>>
      ELSE IF r.status = 200 /\ r.meeting_id = NULL
      THEN /\ CloseStream(sid)
           /\ live_sessions' = [live_sessions EXCEPT ![sid] =
                [@ EXCEPT !.status = "failed", !.ended_at = "now"]]
           /\ resp' = r
           /\ UNCHANGED <<clientVars, limitVars, clockVars, jsonVars, userVars, fileVars, usageVars, env, plan, meetings, transcript_segments,
                          mockSegmentIndex, inflight>>
      ELSE IF r.status = 200
      THEN /\ CloseStream(sid)
           /\ StopSave(r, segments,
                       IF env.MOCK_MODE THEN MOCK_EXTRACTION ELSE EmptyExtraction)
           /\ resp' = r
           /\ UNCHANGED <<clientVars, limitVars, clockVars, jsonVars, userVars, fileVars, usageVars, env, plan, transcript_segments, mockSegmentIndex, inflight>>
      ELSE UNCHANGED vars

\* how the extractor call ends: it throws, its text cannot be decoded by
\* safeJsonParse, or it is decoded
ExtractOutcomes == {"error", "undecodable", "decoded"}

\* Extraction that takes every outcome for a decoded record
Extraction_AlwaysDecoded(outcome) == ModelExtraction

Extraction(outcome) == IF outcome = "decoded" THEN ModelExtraction ELSE EmptyExtraction

\* the extractor call of a suspended stop handler settles
StopExtracted(h, outcome) ==
  /\ h \in BagToSet(inflight)
  /\ h.op = "stop"
  /\ LET r == StopSavedReply(h.user, h.sid)
     IN  /\ StopSave(r, h.segments, Extraction(outcome))
         /\ resp' = r
  /\ inflight' = inflight (-) SetToBag({h})
  /\ UNCHANGED <<clientVars, limitVars, clockVars, jsonVars, userVars, fileVars, usageVars, env, plan, transcript_segments, activeStreams, conns,
                 mockSegmentIndex>>

\* ------------------------------------------ GET /api/live/:id/status
StatusReply(u, sid) ==
  IF getOwnedSession(sid, u) = NULL
  THEN Reply("status", u, sid, 404, "Session not found")
  ELSE [Reply("status", u, sid, 200, "")
          EXCEPT !.session_id = sid,
                 !.session_status = live_sessions[sid].status,
                 !.meeting_id = live_sessions[sid].meeting_id,
                 !.segment_count = Len(SegmentsOf(sid))]

Status(u, sid) == StatusReply(u, sid).status \in {200, 404} /\ UNCHANGED vars

\* ------------------------------------------------------ extractKeywords
\* A lower-case text is read token by token: " " and "\n" are whitespace,
\* every other token is a word of letters and digits.
STOP_WORDS ==
  {"the", "a", "an", "and", "or", "but", "in", "on", "at", "to", "for",
    "of", "with", "by", "is", "was", "are", "were", "be", "been", "being",
    "have", "has", "had", "do", "does", "did", "will", "would", "could",
    "should", "may", "might", "can", "shall", "it", "its", "this", "that",
    "these", "those", "i", "you", "he", "she", "we", "they", "me", "him",
    "her", "us", "them", "my", "your", "his", "our", "their", "what",
    "which", "who", "whom", "when", "where", "why", "how", "all", "each",
    "every", "both", "few", "more", "most", "other", "some", "such", "no",
    "not", "only", "own", "same", "so", "than", "too", "very", "just",
    "about", "above", "after", "again", "also", "am", "any", "as",
    "because", "before", "between", "from", "get", "got", "if", "into",
    "new", "now", "out", "over", "then", "there", "through", "time", "up",
    "want", "well", "went", "need", "know", "like", "going", "think",
    "make", "said", "look", "come", "let", "still", "ll", "re", "ve",
    "don", "didn", "won", "isn", "aren", "doesn", "wasn" }

\* text.replace(/[^a-z0-9\s]/g, ' ').split(/\s+/).filter(w => w.length > 3 &&
\* !STOP_WORDS.has(w))
KeywordTokens(text) ==
  SelectSeq(text, LAMBDA w : w \notin {" ", "\n"} /\ Len(w) > 3 /\ w \notin STOP_WORDS)

\* the keys of freq, in the order the words were first met
RECURSIVE Distinct(_)
Distinct(ws) ==
  IF ws = <<>> THEN <<>>
  ELSE <<Head(ws)>> \o Distinct(SelectSeq(Tail(ws), LAMBDA w : w # Head(ws)))

\* freq[w]
Freq(ws, w) == Len(SelectSeq(ws, LAMBDA x : x = w))

\* .sort((a, b) => b[1] - a[1]): by frequency, highest first, equal ones in
\* their order
RECURSIVE SortByFreq(_, _)
SortByFreq(keys, ws) ==
  IF keys = <<>> THEN <<>>
  ELSE LET k == CHOOSE i \in 1..Len(keys) : \A j \in 1..Len(keys) :
                  \/ Freq(ws, keys[i]) > Freq(ws, keys[j])
                  \/ Freq(ws, keys[i]) = Freq(ws, keys[j]) /\ i <= j
       IN  <<keys[k]>> \o SortByFreq(RemoveAt(keys, k), ws)

\* .slice(0, n)
Take(s, n) == SubSeq(s, 1, IF Len(s) < n THEN Len(s) ELSE n)

extractKeywords(text) ==
  Take(SortByFreq(Distinct(KeywordTokens(text)), KeywordTokens(text)), KeywordLimit)

\* a.filter(w => b.includes(w))
FilterIncluded(a, b) == SelectSeq(a, LAMBDA w : \E i \in 1..Len(b) : b[i] = w)

\* texts.join(' ')
RECURSIVE JoinSpace(_)
JoinSpace(texts) ==
  IF texts = <<>> THEN <<>>
  ELSE IF Len(texts) = 1 THEN texts[1]
  ELSE texts[1] \o <<" ">> \o JoinSpace(Tail(texts))

RECURSIVE Reverse(_)
Reverse(s) == IF s = <<>> THEN <<>> ELSE Reverse(Tail(s)) \o <<Head(s)>>

\* ----------------------------------- POST /api/live/:id/memory-hints
\* SELECT text FROM transcript_segments WHERE session_id = ?
\* ORDER BY segment_index DESC LIMIT 24
RecentSegments(sid) == Take(Reverse(SegmentsOrdered(sid)), RecentSegmentLimit)

\* the meetings of every user, newest first
PastMeetings_AllUsers(u) ==
  Take(Reverse(SelectSeq([m \in 1..Len(meetings) |-> m],
                         LAMBDA m : meetings[m].user_id # NULL)),
       PastMeetingLimit)

\* SELECT ... FROM meetings WHERE user_id = ? ORDER BY created_at DESC LIMIT 20
\* (rows are created in the order of their ids)
PastMeetings(u) ==
  Take(Reverse(SelectSeq([m \in 1..Len(meetings) |-> m],
                         LAMBDA m : meetings[m].user_id = u)),
       PastMeetingLimit)

\* the loop over pastMeetings: a meeting that shares at least two keywords
\* gives a hint; the loop ends after the third hint
RECURSIVE HintsLoop(_, _, _)
HintsLoop(ids, keywords, hints) ==
  IF ids = <<>> \/ Len(hints) >= HintLimit THEN hints
  ELSE LET shared == FilterIncluded(keywords,
                                    extractKeywords(meetings[Head(ids)].raw_notes))
       IN  HintsLoop(Tail(ids), keywords,
                     IF Len(shared) >= MinSharedKeywords
                     THEN Append(hints, [meeting_id |-> Head(ids),
                                         shared_topics |-> Take(shared, 4)])
                     ELSE hints)

\* the hints of the 200 answer
MemoryHintsList(u, sid) ==
  LET keywords == extractKeywords(JoinSpace(TextsOf(RecentSegments(sid))))
  IN  IF RecentSegments(sid) = <<>> \/ keywords = <<>> THEN <<>>
      ELSE HintsLoop(PastMeetings(u), keywords, <<>>)

\* the handler only reads
MemoryHintsReply(u, sid) ==
  IF getOwnedSession(sid, u) = NULL
  THEN Reply("memory-hints", u, sid, 404, "Session not found")
  ELSE Reply("memory-hints", u, sid, 200, "")

MemoryHints(u, sid) == MemoryHintsReply(u, sid).status \in {200, 404} /\ UNCHANGED vars

\* ---------------------------------------------- POST /api/meetings
SaveReply(u, valid) ==
  IF ~valid
  THEN Reply("save", u, NULL, 400, "Notes and action items are required")
  ELSE IF ~checkMeetingStorageLimit(u)
  THEN Reply("save", u, NULL, 403, "meeting_limit")
  ELSE [Reply("save", u, NULL, 201, "") EXCEPT !.meeting_id = Len(meetings) + 1]

SaveMeeting(u, valid) ==
  LET r == SaveReply(u, valid)
  IN  IF r.status = 201
      THEN /\ Len(meetings) < MaxMeetings
           /\ meetings' = Append(meetings,
                [user_id |-> u, raw_notes |-> SavedNotes,
                 action_items |-> EmptyExtraction, created_at |-> now])
           /\ resp' = r
           /\ UNCHANGED <<clientVars, limitVars, clockVars, jsonVars, userVars, fileVars, usageVars, env, plan, live_sessions, transcript_segments,
                          activeStreams, conns, mockSegmentIndex, inflight>>
      ELSE UNCHANGED vars

\* ------------------------------------ /api/meetings/:id
MeetingIds == 1..Len(meetings)

\* ... FROM meetings WHERE id = ?, without AND user_id = ?
getOwnedMeeting_AnyUser(mid, u) ==
  IF mid \in MeetingIds /\ meetings[mid].user_id # NULL THEN mid ELSE NULL

\* ... FROM meetings WHERE id = ? AND user_id = ?
getOwnedMeeting(mid, u) ==
  IF mid \in MeetingIds /\ meetings[mid].user_id = u THEN mid ELSE NULL

MeetingNotFound(op, u) == Reply(op, u, NULL, 404, "Meeting not found")

MeetingOk(op, u, mid) == [Reply(op, u, NULL, 200, "") EXCEPT !.meeting_id = mid]

\* GET /:id, GET /:id/insights and GET /:id/whatchanged only read
MeetingReadOps == {"get", "insights", "whatchanged"}

MeetingReadReply(op, u, mid) ==
  IF getOwnedMeeting(mid, u) = NULL THEN MeetingNotFound(op, u)
  ELSE MeetingOk(op, u, mid)

MeetingRead(op, u, mid) ==
  MeetingReadReply(op, u, mid).status \in {200, 404} /\ UNCHANGED vars

\* ------------------------------- GET /api/meetings/:id/insights
\* .toLowerCase(), word by word: the words written with a capital in the
\* notes of this model
toLowerCase(text) ==
  [i \in 1..Len(text) |->
     CASE text[i] = "Attendees" -> "attendees"
       [] text[i] = "Sarah" -> "sarah"
       [] text[i] = "John" -> "john"
       [] text[i] = "Mike" -> "mike"
       [] text[i] = "Friday" -> "friday"
       [] OTHER -> text[i]]

\* SELECT ... FROM meetings WHERE user_id = ? AND id != ? ORDER BY created_at ASC
\* (created_at never decreases along the ids)
OtherMeetings(u, mid) ==
  SelectSeq([m \in 1..Len(meetings) |-> m],
            LAMBDA m : meetings[m].user_id = u /\ m # mid)

\* the loop over priorMeetings, lines 522-535: the prior meetings that share
\* two keywords or more, each with its first five shared keywords
RECURSIVE topicOverlaps(_, _)
topicOverlaps(currentWords, priorMeetings) ==
  IF priorMeetings = <<>> THEN <<>>
  ELSE LET prior == Head(priorMeetings)
           priorWords == extractKeywords(toLowerCase(meetings[prior].raw_notes))
           shared == FilterIncluded(currentWords, priorWords)
       IN  (IF Len(shared) >= MinSharedKeywords
            THEN <<[meeting_id |-> prior, date |-> meetings[prior].created_at,
                    shared_topics |-> Take(Distinct(shared), SharedTopicLimit)]>>
            ELSE <<>>)
           \o topicOverlaps(currentWords, Tail(priorMeetings))

\* topicOverlaps.flatMap(o => o.shared_topics)
RECURSIVE FlatTopics(_)
FlatTopics(overlaps) ==
  IF overlaps = <<>> THEN <<>>
  ELSE Head(overlaps).shared_topics \o FlatTopics(Tail(overlaps))

\* new Set(priorMeetings.flatMap(m => extractKeywords(...)))
allPriorWords(priorMeetings) ==
  UNION { LET ws == extractKeywords(toLowerCase(meetings[priorMeetings[i]].raw_notes))
          IN  {ws[j] : j \in 1..Len(ws)} : i \in 1..Len(priorMeetings) }

\* the cards generateInsights builds from the keywords of the notes: card 1,
\* Recurring Topics, and card 5, New Topics, in the order they are pushed
\* (the cards built from action items, phrases and names are left out)
generateInsights(current, priorMeetings) ==
  LET currentWords == extractKeywords(toLowerCase(meetings[current].raw_notes))
      overlaps == topicOverlaps(currentWords, priorMeetings)
      allShared == Take(Distinct(FlatTopics(overlaps)), AllSharedLimit)
      newTopics == SelectSeq(currentWords,
                             LAMBDA w : w \notin allPriorWords(priorMeetings))
  IN  (IF Len(overlaps) > 0
       THEN <<[type |-> "repeated_topics", topics |-> allShared,
               details |-> Take(overlaps, DetailLimit)]>>
       ELSE <<>>)
      \o (IF Len(newTopics) > 0
          THEN <<[type |-> "new_topics", topics |-> Take(newTopics, NewTopicLimit),
                  details |-> <<>>]>>
          ELSE <<>>)

\* the insights of the 200 answer
InsightsList(u, mid) ==
  IF OtherMeetings(u, mid) = <<>> THEN <<>>
  ELSE generateInsights(mid, OtherMeetings(u, mid))

\* ----------------------------- GET /api/meetings/:id/whatchanged
\* SELECT ... FROM meetings WHERE user_id = ? AND created_at < ?
\* ORDER BY created_at DESC LIMIT 1: the rows the query may return, one of
\* them when several share the latest created_at
PriorCandidates(u, mid) ==
  { m \in MeetingIds :
      /\ meetings[m].user_id = u
      /\ meetings[m].created_at < meetings[mid].created_at
      /\ \A k \in MeetingIds :
           meetings[k].user_id = u /\ meetings[k].created_at < meetings[mid].created_at
             => meetings[k].created_at <= meetings[m].created_at }

\* has_prior of the 200 answer
has_prior(u, mid) == PriorCandidates(u, mid) # {}

\* what PATCH /:id/transcript and PATCH /:id/extraction store
EditedNotes == <<"e">>
EditedExtraction == [action_items |-> <<"edited">>, follow_up_email |-> <<"mail">>]

\* PATCH /:id/transcript; valid: transcript is a string of at most 200000
\* characters
PatchTranscriptReply(u, mid, valid) ==
  IF ~valid THEN Reply("transcript", u, NULL, 400, "transcript must be a string")
  ELSE IF getOwnedMeeting(mid, u) = NULL THEN MeetingNotFound("transcript", u)
  ELSE MeetingOk("transcript", u, mid)

PatchTranscript(u, mid, valid) ==
  LET r == PatchTranscriptReply(u, mid, valid)
  IN  IF r.status = 200
      THEN /\ meetings' = [meetings EXCEPT ![mid].raw_notes = EditedNotes]
           /\ resp' = r
           /\ UNCHANGED <<clientVars, limitVars, clockVars, jsonVars, userVars, fileVars, usageVars, env, plan, live_sessions,
                          transcript_segments, activeStreams, conns,
                          mockSegmentIndex, inflight>>
      ELSE UNCHANGED vars

\* PATCH /:id/extraction; valid: the body passes the checks of action_items
\* and follow_up_email
PatchExtractionReply(u, mid, valid) ==
  IF ~valid THEN Reply("extraction", u, NULL, 400, "action_items must be an array")
  ELSE IF getOwnedMeeting(mid, u) = NULL THEN MeetingNotFound("extraction", u)
  ELSE MeetingOk("extraction", u, mid)

PatchExtraction(u, mid, valid) ==
  LET r == PatchExtractionReply(u, mid, valid)
  IN  IF r.status = 200
      THEN /\ meetings' = [meetings EXCEPT ![mid].action_items = EditedExtraction]
           /\ resp' = r
           /\ UNCHANGED <<clientVars, limitVars, clockVars, jsonVars, userVars, fileVars, usageVars, env, plan, live_sessions,
                          transcript_segments, activeStreams, conns,
                          mockSegmentIndex, inflight>>
      ELSE UNCHANGED vars

\* the place of a deleted row: ids are AUTOINCREMENT and not given again
DeletedMeeting ==
  [user_id |-> NULL, raw_notes |-> <<>>, action_items |-> EmptyExtraction,
   created_at |-> NULL]

\* DELETE /:id
DeleteMeetingReply(u, mid) ==
  IF getOwnedMeeting(mid, u) = NULL THEN MeetingNotFound("delete", u)
  ELSE MeetingOk("delete", u, mid)

DeleteMeeting(u, mid) ==
  LET r == DeleteMeetingReply(u, mid)
  IN  IF r.status = 200
      THEN /\ meetings' = [meetings EXCEPT ![mid] = DeletedMeeting]
           /\ resp' = r
           /\ UNCHANGED <<clientVars, limitVars, clockVars, jsonVars, userVars, fileVars, usageVars, env, plan, live_sessions,
                          transcript_segments, activeStreams, conns,
                          mockSegmentIndex, inflight>>
      ELSE UNCHANGED vars

\* ------------------------------------- POST /api/meetings/extract
Plans == {"free", "ltd", "fltd", "sub_basic", "sub_pro"}

\* PLAN_LIMITS: { lifetime, monthly }
PLAN_LIMITS(p) ==
  IF p = "free" THEN [lifetime |-> FreeLifetimeLimit, monthly |-> NULL]
  ELSE IF p \in {"ltd", "sub_basic"} THEN [lifetime |-> NULL, monthly |-> BasicMonthlyLimit]
  ELSE [lifetime |-> NULL, monthly |-> ProMonthlyLimit]

\* extracts of the row (u, m), 0 when there is no row
Extracts(us, u, m) == IF <<u, m>> \in DOMAIN us THEN us[<<u, m>>] ELSE 0

\* SELECT COALESCE(SUM(extracts), 0) FROM usage WHERE user_id = ?
RECURSIVE SumExtracts(_, _, _)
SumExtracts(us, u, m) ==
  IF m = 0 THEN 0 ELSE Extracts(us, u, m) + SumExtracts(us, u, m - 1)

TotalExtracts(us, u) == SumExtracts(us, u, MaxMonth)

\* INSERT OR IGNORE INTO usage (user_id, month, extracts) VALUES (?, ?, 0)
EnsureUsageRow(us, u, m) ==
  IF <<u, m>> \in DOMAIN us THEN us ELSE (<<u, m>> :> 0) @@ us

\* checkUsageLimit(userId).allowed, read after the row has been ensured
checkUsageLimit(u) ==
  LET limits == PLAN_LIMITS(plan[u])
  IN  IF limits.lifetime # NULL
      THEN ~(TotalExtracts(usage, u) >= limits.lifetime)
      ELSE ~(Extracts(usage, u, month) >= limits.monthly)

\* incrementUsage without the ON CONFLICT clause: the row is set to 1
incrementUsage_Overwrite(us, u, m) == (<<u, m>> :> 1) @@ us

\* INSERT ... VALUES (?, ?, 1) ON CONFLICT DO UPDATE SET extracts = extracts + 1
incrementUsage(us, u, m) ==
  IF <<u, m>> \in DOMAIN us
  THEN [us EXCEPT ![<<u, m>>] = @ + 1]
  ELSE (<<u, m>> :> 1) @@ us

\* notes of an extract request: missing or blank, over 50,000 characters, valid
NotesKinds == {"blank", "too_long", "valid"}

\* the response of the handler's first run, or Suspended at `await messages.create`
ExtractReply(u, notes) ==
  IF notes = "blank"
  THEN Reply("extract", u, NULL, 400, "Meeting notes are required")
  ELSE IF notes = "too_long"
  THEN Reply("extract", u, NULL, 400, "Notes too long (max 50,000 characters)")
  ELSE IF ~checkUsageLimit(u)
  THEN Reply("extract", u, NULL, 429, "limit_reached")
  ELSE IF env.MOCK_MODE
  THEN Reply("extract", u, NULL, 200, "")
  ELSE Suspended("extract", u, NULL)

Extract(u, notes) ==
  LET r == ExtractReply(u, notes)
      ensured == EnsureUsageRow(usage, u, month)
  IN  IF r.status = 400
      THEN UNCHANGED vars
      ELSE IF r.status = 429
      THEN /\ usage' = ensured
           /\ resp' = r
           /\ UNCHANGED <<clientVars, limitVars, clockVars, jsonVars, userVars, fileVars, month, extractRequests, env, plan, meetings, live_sessions,
                          transcript_segments, activeStreams, conns,
                          mockSegmentIndex, inflight>>
      ELSE /\ extractRequests < MaxExtracts
           /\ extractRequests' = extractRequests + 1
           /\ IF r.status = 200
              THEN /\ usage' = incrementUsage(ensured, u, month)
                   /\ resp' = r
                   /\ UNCHANGED inflight
              ELSE /\ BagCardinality(inflight) < MaxInflight
                   /\ usage' = ensured
                   /\ inflight' = inflight (+) SetToBag({[op |-> "extract", user |-> u,
                                     sid |-> NULL, segments |-> <<>>,
                                     timestampMs |-> NULL]})
                   /\ resp' = NoResp
           /\ UNCHANGED <<clientVars, limitVars, clockVars, jsonVars, userVars, fileVars, month, env, plan, meetings, live_sessions,
                          transcript_segments, activeStreams, conns, mockSegmentIndex>>

\* ExtractSettledReply that answers 200 when the output cannot be decoded
ExtractSettledReply_ParseFailureOk(u, outcome) ==
  IF outcome = "error"
  THEN Reply("extract", u, NULL, 500, "Failed to extract action items")
  ELSE Reply("extract", u, NULL, 200, "")

\* the response once the extractor call has settled
ExtractSettledReply(u, outcome) ==
  IF outcome = "error"
  THEN Reply("extract", u, NULL, 500, "Failed to extract action items")
  ELSE IF outcome = "undecodable"
  THEN Reply("extract", u, NULL, 500, "Failed to parse AI response")
  ELSE Reply("extract", u, NULL, 200, "")

\* the extractor call of a suspended extract handler settles; a client
\* without an API key can only fail
ExtractSettled(h, outcome) ==
  /\ h \in BagToSet(inflight)
  /\ h.op = "extract"
  /\ env.CLAUDE_API_KEY \/ outcome = "error"
  /\ LET r == ExtractSettledReply(h.user, outcome)
     IN  /\ usage' = IF r.status = 200 THEN incrementUsage(usage, h.user, month)
                     ELSE usage
         /\ resp' = r
  /\ inflight' = inflight (-) SetToBag({h})
  /\ UNCHANGED <<clientVars, limitVars, clockVars, jsonVars, userVars, fileVars, month, extractRequests, env, plan, meetings, live_sessions,
                 transcript_segments, activeStreams, conns, mockSegmentIndex>>

\* the calendar month changes
NewMonth ==
  /\ month < MaxMonth
  /\ month' = month + 1
  /\ resp' = NoResp
  /\ UNCHANGED <<clientVars, limitVars, clockVars, jsonVars, userVars, fileVars, usage, extractRequests, env, plan, meetings, live_sessions,
                 transcript_segments, activeStreams, conns, mockSegmentIndex,
                 inflight>>

\* --------------------------------------------- audio temp files
\* What one run of a handler does with the audio file of its request, up to
\* the moment it answers: the paths the file was stored under ("temp" is
\* req.file.path, "renamed" is that path with the extension, "download" is
\* the tempFile of an import) and the paths for which fs.unlink was called.
\* The conditions a handler tests are inputs here.
FileRun(route, status, stored, unlinked) ==
  [route |-> route, status |-> status, stored |-> stored, unlinked |-> unlinked]

Transcriptions == {"ok", "fail"}

\* POST /api/meetings/upload
UploadRun(hasFile, quotaOk, transcription) ==
  IF ~hasFile THEN FileRun("upload", 400, {}, {})
  ELSE IF ~quotaOk THEN FileRun("upload", 403, {"temp"}, {"temp"})
  ELSE LET outerFinally == {"temp"}
       IN  IF env.MOCK_MODE THEN FileRun("upload", 201, {"temp"}, outerFinally)
           ELSE IF ~env.OPENAI_API_KEY
           THEN FileRun("upload", 501, {"temp"}, outerFinally)
           ELSE LET innerFinally == {"renamed"}
                IN  FileRun("upload", IF transcription = "ok" THEN 201 ELSE 500,
                            {"temp", "renamed"}, innerFinally \cup outerFinally)

\* ChunkRun that does not unlink the file when the session is not found
ChunkRun_NotFoundKeepsFile(hasFile, found, active, transcription) ==
  IF ~found
  THEN FileRun("chunk", 404, IF hasFile THEN {"temp"} ELSE {}, {})
  ELSE IF ~active
  THEN FileRun("chunk", 400, IF hasFile THEN {"temp"} ELSE {},
               IF hasFile THEN {"temp"} ELSE {})
  ELSE IF ~hasFile THEN FileRun("chunk", 400, {}, {})
  ELSE LET outerFinally == {"temp"}
       IN  IF env.MOCK_MODE THEN FileRun("chunk", 200, {"temp"}, outerFinally)
           ELSE LET innerFinally == {"renamed"}
                IN  FileRun("chunk",
                            IF env.OPENAI_API_KEY /\ transcription = "ok"
                            THEN 200 ELSE 500,
                            {"temp", "renamed"}, innerFinally \cup outerFinally)

\* POST /api/live/:id/chunk
ChunkRun(hasFile, found, active, transcription) ==
  IF ~found \/ ~active
  THEN FileRun("chunk", IF ~found THEN 404 ELSE 400,
               IF hasFile THEN {"temp"} ELSE {},
               IF hasFile THEN {"temp"} ELSE {})
  ELSE IF ~hasFile THEN FileRun("chunk", 400, {}, {})
  ELSE LET outerFinally == {"temp"}
       IN  IF env.MOCK_MODE THEN FileRun("chunk", 200, {"temp"}, outerFinally)
           ELSE LET innerFinally == {"renamed"}
                IN  FileRun("chunk",
                            IF env.OPENAI_API_KEY /\ transcription = "ok"
                            THEN 200 ELSE 500,
                            {"temp", "renamed"}, innerFinally \cup outerFinally)

\* how far an import gets before it answers
ImportOutcomes ==
  {"no_token", "no_recording", "download_failed", "write_failed",
   "transcribed", "transcription_failed"}

\* POST /api/zoom/import: tempFile is null until the download is written
ImportRun(valid, quotaOk, outcome) ==
  IF ~valid THEN FileRun("import", 400, {}, {})
  ELSE IF ~quotaOk THEN FileRun("import", 403, {}, {})
  ELSE IF env.MOCK_MODE THEN FileRun("import", 201, {}, {})
  ELSE IF outcome = "no_token" THEN FileRun("import", 401, {}, {})
  ELSE IF outcome = "no_recording" THEN FileRun("import", 404, {}, {})
  ELSE IF outcome = "download_failed" THEN FileRun("import", 502, {}, {})
  ELSE LET finally == {"download"}
       IN  IF outcome = "write_failed" THEN FileRun("import", 500, {"download"}, finally)
           ELSE IF ~env.OPENAI_API_KEY
           THEN FileRun("import", 501, {"download"}, finally)
           ELSE FileRun("import", IF outcome = "transcribed" THEN 201 ELSE 500,
                        {"download"}, finally)

\* a handler run is recorded when it answers
RecordRun(run) ==
  /\ Len(fileRuns) < MaxRuns
  /\ fileRuns' = Append(fileRuns, run)
  /\ UNCHANGED <<clientVars, limitVars, clockVars, jsonVars, userVars, usageVars, env, plan, meetings, live_sessions,
                 transcript_segments, activeStreams, conns, mockSegmentIndex,
                 inflight, resp>>

UploadFiles(hasFile, quotaOk, transcription) ==
  RecordRun(UploadRun(hasFile, quotaOk, transcription))

ChunkFiles(hasFile, found, active, transcription) ==
  RecordRun(ChunkRun(hasFile, found, active, transcription))

ImportFiles(valid, quotaOk, outcome) ==
  RecordRun(ImportRun(valid, quotaOk, outcome))

\* ------------------------------------------- users.is_lifetime
\* CREATE TRIGGER protect_lifetime_flag BEFORE UPDATE ON users
\* WHEN OLD.is_lifetime = 1 AND NEW.is_lifetime = 0: never
TriggerAborts_Never(u, lifetime) == FALSE

\* CREATE TRIGGER protect_lifetime_flag BEFORE UPDATE ON users
\* WHEN OLD.is_lifetime = 1 AND NEW.is_lifetime = 0 ... RAISE(ABORT, ...)
TriggerAborts(u, lifetime) ==
  protect_lifetime_flag /\ is_lifetime[u] = 1 /\ lifetime = 0

SqlError(u) ==
  Reply("update_users", u, NULL, NULL, "Cannot clear is_lifetime flag.")

SqlDone(u) == Reply("update_users", u, NULL, NULL, "")

otherVars == <<clientVars, limitVars, clockVars, jsonVars, billingVars, fileVars, usageVars, env, meetings, live_sessions, transcript_segments,
               activeStreams, conns, mockSegmentIndex, inflight>>

\* UPDATE users SET is_lifetime = ?, plan = ? WHERE id = ?, run on the database
UpdateUsers(u, p, lifetime) ==
  /\ IF TriggerAborts(u, lifetime)
     THEN /\ resp' = SqlError(u)
          /\ UNCHANGED <<plan, is_lifetime>>
     ELSE /\ resp' = SqlDone(u)
          /\ plan' = [plan EXCEPT ![u] = p]
          /\ is_lifetime' = [is_lifetime EXCEPT ![u] = lifetime]
  /\ UNCHANGED <<protect_lifetime_flag, otherVars>>

\* the finally block of POST /api/admin/upgrade:
\* CREATE TRIGGER IF NOT EXISTS protect_lifetime_flag
TriggerAfterFinally_NoRecreate(present) == present

TriggerAfterFinally(present) == TRUE

SqlOutcomes == {"ok", "error"}

\* POST /api/admin/upgrade with the admin secret, an email and a valid plan;
\* known: a users row has the email (u is that row); sql: whether the UPDATE
\* statement runs or throws for a reason of the database (busy, I/O)
AdminUpgrade(u, known, p, force, sql) ==
  LET newIsLifetime == IF p \in {"ltd", "fltd"} THEN 1 ELSE 0
      clears == known /\ is_lifetime[u] = 1 /\ newIsLifetime = 0
      \* the trigger is dropped before the UPDATE when clears holds
      present == protect_lifetime_flag /\ ~clears
      aborts == present /\ known /\ is_lifetime[u] = 1 /\ newIsLifetime = 0
  IN  IF clears /\ ~force
      THEN /\ resp' = Reply("upgrade", u, NULL, 409, "This user has a lifetime plan.")
           /\ UNCHANGED <<plan, is_lifetime, protect_lifetime_flag, otherVars>>
      ELSE /\ protect_lifetime_flag' = TriggerAfterFinally(present)
           /\ UNCHANGED otherVars
           /\ IF sql = "error" \/ aborts
              THEN \* the exception leaves the handler after the finally block
                   /\ resp' = Reply("upgrade", u, NULL, 500, "Internal Server Error")
                   /\ UNCHANGED <<plan, is_lifetime>>
              ELSE IF ~known
              THEN /\ resp' = Reply("upgrade", u, NULL, 404, "User not found")
                   /\ UNCHANGED <<plan, is_lifetime>>
              ELSE /\ resp' = Reply("upgrade", u, NULL, 200, "")
                   /\ plan' = [plan EXCEPT ![u] = p]
                   /\ is_lifetime' = [is_lifetime EXCEPT ![u] = newIsLifetime]

\* checkout.session.completed of a paid one-time purchase of ltd or fltd
LifetimePurchase(u, p) ==
  /\ p \in {"ltd", "fltd"}
  /\ plan' = [plan EXCEPT ![u] = p]
  /\ is_lifetime' = [is_lifetime EXCEPT ![u] = 1]
  /\ resp' = Reply("webhook", u, NULL, 200, "")
  /\ UNCHANGED <<protect_lifetime_flag, otherVars>>

\* DROP TRIGGER IF EXISTS protect_lifetime_flag, by a script
DropTrigger ==
  /\ protect_lifetime_flag' = FALSE
  /\ resp' = NoResp
  /\ UNCHANGED <<plan, is_lifetime, otherVars>>

\* CREATE TRIGGER IF NOT EXISTS protect_lifetime_flag, at start-up
CreateTrigger ==
  /\ protect_lifetime_flag' = TRUE
  /\ resp' = NoResp
  /\ UNCHANGED <<plan, is_lifetime, otherVars>>

\* --------------------------------------------------------- safeJsonParse
\* A JSON text is a sequence of tokens: the structural characters, the
\* quote, " " for whitespace, FENCE for three backticks, "json" for that word,
\* "1" for a number, "null" for a literal, and "x" for any other character.
\* A JSON value is a tree of nodes [t, s, items].
FENCE == "fence"

JStr(str) == Node("str", str, <<>>)
JNum == Node("num", <<>>, <<>>)
JNull == Node("null", <<>>, <<>>)
JArr(items) == Node("arr", <<>>, items)
JMem(key, v) == Node("mem", <<key>>, <<v>>)
JObj(members) == Node("obj", <<>>, members)

\* JSON.stringify
RECURSIVE JSONstringify(_)
RECURSIVE StringifyAll(_)
StringifyAll(items) ==
  IF items = <<>> THEN <<>>
  ELSE IF Len(items) = 1 THEN JSONstringify(items[1])
  ELSE JSONstringify(items[1]) \o <<",">> \o StringifyAll(Tail(items))

JSONstringify(v) ==
  CASE v.t = "str" -> <<"\"">> \o v.s \o <<"\"">>
    [] v.t = "num" -> <<"1">>
    [] v.t = "null" -> <<"null">>
    [] v.t = "arr" -> <<"[">> \o StringifyAll(v.items) \o <<"]">>
    [] v.t = "mem" -> <<"\"">> \o v.s \o <<"\"", ":">> \o JSONstringify(v.items[1])
    [] v.t = "obj" -> <<"{">> \o StringifyAll(v.items) \o <<"}">>

\* the outcome of a parsing step: failed, or a value and the tokens left
ParseFail == [ok |-> FALSE, v |-> JNull, rest |-> <<>>]
Parsed(v, rest) == [ok |-> TRUE, v |-> v, rest |-> rest]

RECURSIVE SkipWs(_)
SkipWs(toks) == IF toks # <<>> /\ Head(toks) = " " THEN SkipWs(Tail(toks)) ELSE toks

\* the tokens of a string up to its closing quote, and the tokens after it
RECURSIVE ParseChars(_, _)
ParseChars(toks, acc) ==
  IF toks = <<>> THEN ParseFail
  ELSE IF Head(toks) = "\"" THEN Parsed(JStr(acc), Tail(toks))
  ELSE ParseChars(Tail(toks), Append(acc, Head(toks)))

RECURSIVE ParseValue(_)
RECURSIVE ParseElements(_, _)
RECURSIVE ParseMembers(_, _)

\* after "[" or after a "," of an array: a value, then "," or "]"
ParseElements(toks, acc) ==
  LET e == ParseValue(toks)
      after == SkipWs(e.rest)
  IN  IF ~e.ok \/ after = <<>> THEN ParseFail
      ELSE IF Head(after) = "]" THEN Parsed(JArr(Append(acc, e.v)), Tail(after))
      ELSE IF Head(after) = "," THEN ParseElements(Tail(after), Append(acc, e.v))
      ELSE ParseFail

\* after "{" or after a "," of an object: a key, ":", a value, then "," or "}"
ParseMembers(toks, acc) ==
  LET start == SkipWs(toks)
      key == IF start # <<>> /\ Head(start) = "\"" THEN ParseChars(Tail(start), <<>>)
             ELSE ParseFail
      colon == SkipWs(key.rest)
      e == IF key.ok /\ colon # <<>> /\ Head(colon) = ":" THEN ParseValue(Tail(colon))
           ELSE ParseFail
      after == SkipWs(e.rest)
      member == Node("mem", key.v.s, <<e.v>>)
  IN  IF ~e.ok \/ after = <<>> THEN ParseFail
      ELSE IF Head(after) = "}" THEN Parsed(JObj(Append(acc, member)), Tail(after))
      ELSE IF Head(after) = "," THEN ParseMembers(Tail(after), Append(acc, member))
      ELSE ParseFail

ParseValue(toks) ==
  LET start == SkipWs(toks)
  IN  IF start = <<>> THEN ParseFail
      ELSE LET c == Head(start)
               inner == SkipWs(Tail(start))
           IN  CASE c = "\"" -> ParseChars(Tail(start), <<>>)
                 [] c = "1" -> Parsed(JNum, Tail(start))
                 [] c = "null" -> Parsed(JNull, Tail(start))
                 [] c = "[" -> IF inner # <<>> /\ Head(inner) = "]"
                               THEN Parsed(JArr(<<>>), Tail(inner))
                               ELSE ParseElements(Tail(start), <<>>)
                 [] c = "{" -> IF inner # <<>> /\ Head(inner) = "}"
                               THEN Parsed(JObj(<<>>), Tail(inner))
                               ELSE ParseMembers(Tail(start), <<>>)
                 [] OTHER -> ParseFail

\* what a call returns or throws
Returned(v) == [ok |-> TRUE, v |-> v]
Thrown == [ok |-> FALSE, v |-> JNull]

\* JSON.parse: one value, with nothing but whitespace after it
JSONparse(text) ==
  LET r == ParseValue(text)
  IN  IF r.ok /\ SkipWs(r.rest) = <<>> THEN Returned(r.v) ELSE Thrown

\* the first replace: FENCE, json and the whitespace after it become FENCE
RECURSIVE ReplaceFenceJson(_)
ReplaceFenceJson(text) ==
  IF text = <<>> THEN <<>>
  ELSE IF Len(text) >= 2 /\ text[1] = FENCE /\ text[2] = "json"
  THEN <<FENCE>> \o ReplaceFenceJson(SkipWs(SubSeq(text, 3, Len(text))))
  ELSE <<Head(text)>> \o ReplaceFenceJson(Tail(text))

\* the second replace: every FENCE is removed
RemoveFences(text) == SelectSeq(text, LAMBDA c : c # FENCE)

\* candidate.replace(/,\s*([}\]])/g, '$1')
RECURSIVE RemoveTrailingCommas(_)
RemoveTrailingCommas(text) ==
  IF text = <<>> THEN <<>>
  ELSE LET after == SkipWs(Tail(text))
       IN  IF Head(text) = "," /\ after # <<>> /\ Head(after) \in {"}", "]"}
           THEN RemoveTrailingCommas(after)
           ELSE <<Head(text)>> \o RemoveTrailingCommas(Tail(text))

\* indexOf, lastIndexOf: 0 when the token does not occur
IndexOf(text, c) ==
  IF \E i \in 1..Len(text) : text[i] = c
  THEN CHOOSE i \in 1..Len(text) : text[i] = c /\ \A j \in 1..(i - 1) : text[j] # c
  ELSE 0

LastIndexOf(text, c) ==
  IF \E i \in 1..Len(text) : text[i] = c
  THEN CHOOSE i \in 1..Len(text) : text[i] = c /\ \A j \in (i + 1)..Len(text) : text[j] # c
  ELSE 0

safeJsonParse(raw) ==
  LET unfenced == Trim(RemoveFences(ReplaceFenceJson(Trim(raw))))
      direct == JSONparse(unfenced)
      start == IndexOf(unfenced, "{")
      end == LastIndexOf(unfenced, "}")
  IN  IF direct.ok THEN direct
      ELSE IF start = 0 \/ end = 0 \/ end <= start THEN Thrown
      ELSE JSONparse(RemoveTrailingCommas(SubSeq(unfenced, start, end)))

\* result = safeJsonParse(rawText)
Decode ==
  /\ result = NoResult
  /\ result' = safeJsonParse(rawText)
  /\ UNCHANGED <<clientVars, limitVars, clockVars, rawText, userVars, fileVars, usageVars, env, plan, meetings,
                 live_sessions, transcript_segments, activeStreams, conns,
                 mockSegmentIndex, inflight, resp>>

\* ------------------------------------------------------ /api/billing
\* what no billing step writes
nonBillingVars == <<clientVars, limitVars, clockVars, jsonVars, protect_lifetime_flag, fileVars, usageVars, env, meetings,
                    live_sessions, transcript_segments, activeStreams, conns,
                    mockSegmentIndex, inflight>>

\* isLifetime that takes no user for a lifetime user
isLifetime_Never(u) == FALSE

isLifetime(u) == is_lifetime[u] = 1

\* the row whose stripe_customer_id is the customer, or NULL
getUserByStripeCustomer(customer) ==
  IF \E u \in Users : stripe_customer_id[u] = customer
  THEN CHOOSE u \in Users : stripe_customer_id[u] = customer
  ELSE NULL

\* the customer Stripe keeps for user u
CustomerOf(u) == u

CheckoutSession(u, p, type) == [user |-> u, plan |-> p, type |-> type]

\* POST /create-checkout-session and POST /create-subscription-session with
\* Stripe configured: a lifetime user is refused (400, 403), otherwise the
\* session is created at Stripe with metadata user_id, plan, type
CreateCheckoutSession(u, p) ==
  LET type == IF p \in {"ltd", "fltd"} THEN "one_time" ELSE "subscription"
  IN  IF p = "free" \/ isLifetime(u) \/ Cardinality(checkouts) >= MaxCheckouts
         \/ CheckoutSession(u, p, type) \in checkouts
      THEN UNCHANGED vars
      ELSE /\ checkouts' = checkouts \cup {CheckoutSession(u, p, type)}
           /\ resp' = Reply(IF type = "one_time" THEN "create-checkout-session"
                            ELSE "create-subscription-session", u, NULL, 200, "")
           /\ UNCHANGED <<plan, is_lifetime, stripe_customer_id,
                          stripe_subscription_id, subscription_status, nonBillingVars>>

PaymentStatuses == {"paid", "unpaid"}

SubscriptionIds == {1}

WebhookReceived == Reply("webhook", NULL, NULL, 200, "")

\* handleCheckoutCompleted, type subscription: the subscription id is stored
\* unless the user is a lifetime user
SubscriptionAttached(u, subscription) == ~isLifetime(u) /\ subscription # NULL

\* event checkout.session.completed for a session s of checkouts; customer
\* says whether the event carries a customer, subscription is its
\* subscription id or NULL
handleCheckoutCompleted(s, customer, payment_status, subscription) ==
  LET u == s.user
      lifetimeGranted == /\ s.type = "one_time" /\ s.plan \in {"ltd", "fltd"}
                         /\ payment_status = "paid"
  IN  /\ s \in checkouts
      /\ checkouts' = checkouts \ {s}
      /\ stripe_customer_id' =
           IF customer THEN [stripe_customer_id EXCEPT ![u] = CustomerOf(u)]
           ELSE stripe_customer_id
      /\ plan' = IF lifetimeGranted THEN [plan EXCEPT ![u] = s.plan] ELSE plan
      /\ is_lifetime' = IF lifetimeGranted THEN [is_lifetime EXCEPT ![u] = 1]
                        ELSE is_lifetime
      /\ stripe_subscription_id' =
           IF s.type = "subscription" /\ SubscriptionAttached(u, subscription)
           THEN [stripe_subscription_id EXCEPT ![u] = subscription]
           ELSE stripe_subscription_id
      /\ resp' = WebhookReceived
      /\ UNCHANGED <<subscription_status, nonBillingVars>>

SubscriptionStatuses == {"active", "past_due", "canceled"}

Prices == {"basic", "pro", "other"}

\* events customer.subscription.created and customer.subscription.updated
handleSubscriptionUpdate(customer, subscription, status, price) ==
  LET u == getUserByStripeCustomer(customer)
      newPlan == IF price = "basic" THEN "sub_basic"
                 ELSE IF price = "pro" THEN "sub_pro" ELSE plan[u]
  IN  IF u = NULL \/ isLifetime(u)
      THEN /\ resp' = WebhookReceived
           /\ UNCHANGED <<plan, is_lifetime, billingVars, nonBillingVars>>
      ELSE /\ plan' = IF status = "active" THEN [plan EXCEPT ![u] = newPlan] ELSE plan
           /\ stripe_subscription_id' = [stripe_subscription_id EXCEPT ![u] = subscription]
           /\ subscription_status' = [subscription_status EXCEPT ![u] = status]
           /\ resp' = WebhookReceived
           /\ UNCHANGED <<is_lifetime, stripe_customer_id, checkouts, nonBillingVars>>

\* event customer.subscription.deleted
handleSubscriptionDeleted(customer) ==
  LET u == getUserByStripeCustomer(customer)
  IN  IF u = NULL \/ isLifetime(u)
      THEN /\ resp' = WebhookReceived
           /\ UNCHANGED <<plan, is_lifetime, billingVars, nonBillingVars>>
      ELSE /\ plan' = [plan EXCEPT ![u] = "free"]
           /\ stripe_subscription_id' = [stripe_subscription_id EXCEPT ![u] = NULL]
           /\ subscription_status' = [subscription_status EXCEPT ![u] = "canceled"]
           /\ resp' = WebhookReceived
           /\ UNCHANGED <<is_lifetime, stripe_customer_id, checkouts, nonBillingVars>>

\* event invoice.payment_failed
handlePaymentFailed(customer) ==
  LET u == getUserByStripeCustomer(customer)
  IN  IF u = NULL \/ isLifetime(u)
      THEN /\ resp' = WebhookReceived
           /\ UNCHANGED <<plan, is_lifetime, billingVars, nonBillingVars>>
      ELSE /\ subscription_status' = [subscription_status EXCEPT ![u] = "past_due"]
           /\ resp' = WebhookReceived
           /\ UNCHANGED <<plan, is_lifetime, stripe_customer_id,
                          stripe_subscription_id, checkouts, nonBillingVars>>

\* POST /api/billing/webhook with a valid signature, for each event type
Webhook ==
  \/ \E s \in checkouts, customer \in BOOLEAN, payment_status \in PaymentStatuses,
        subscription \in SubscriptionIds \cup {NULL} :
       handleCheckoutCompleted(s, customer, payment_status, subscription)
  \/ \E customer \in Users, subscription \in SubscriptionIds,
        status \in SubscriptionStatuses, price \in Prices :
       handleSubscriptionUpdate(customer, subscription, status, price)
  \/ \E customer \in Users : handleSubscriptionDeleted(customer)
  \/ \E customer \in Users : handlePaymentFailed(customer)

\* a session id of a request: every stored id and one that does not exist
RequestIds == 1..(Len(live_sessions) + 1)

\* the first run of each handler of /api/live
Requests ==
  \/ \E u \in Users : Start(u)
  \/ \E u \in Users, sid \in RequestIds : Len(conns) < MaxConns /\ Stream(u, sid)
  \/ \E u \in Users, sid \in RequestIds, hasFile \in BOOLEAN :
       Chunk(u, sid, hasFile, Undefined)
  \/ \E u \in Users, sid \in RequestIds : Stop(u, sid)
  \/ \E u \in Users, sid \in RequestIds : Status(u, sid)
  \/ \E u \in Users, sid \in RequestIds : MemoryHints(u, sid)

\* the provider call of a suspended handler settles
Settles ==
  \/ \E h \in BagToSet(inflight), ok \in BOOLEAN, text \in WhisperTexts :
       ChunkTranscribed(h, ok, text)
  \/ \E h \in BagToSet(inflight), outcome \in ExtractOutcomes : StopExtracted(h, outcome)

\* /api/live with clients that keep their event stream open
Next == Requests \/ Settles

Spec == Init /\ [][Next]_vars

\* the same with clients that disconnect from their event stream and
\* reconnect: up to MaxPushConns connections, at most MaxPushSessions sessions
NextPush ==
  \/ \E u \in Users : Len(live_sessions) < MaxPushSessions /\ Start(u)
  \/ \E u \in Users, sid \in RequestIds :
       Len(conns) < MaxPushConns /\ Stream(u, sid)
  \/ \E u \in Users, sid \in RequestIds, hasFile \in BOOLEAN :
       Chunk(u, sid, hasFile, Undefined)
  \/ \E u \in Users, sid \in RequestIds : Stop(u, sid)
  \/ Settles
  \/ \E c \in 1..Len(conns) : StreamClose(c)

SpecPush == Init /\ [][NextPush]_vars

\* /api/live together with POST /api/meetings in a MOCK_MODE process, where
\* no handler suspends
InitStore == Init /\ env.MOCK_MODE

NextStore ==
  \/ Requests
  \/ \E u \in Users, valid \in BOOLEAN : SaveMeeting(u, valid)

SpecStore == InitStore /\ [][NextStore]_vars

\* a meeting id of a request: every id given so far and one not yet given
MeetingRequestIds == 1..(Len(meetings) + 1)

MeetingRequests ==
  \/ \E op \in MeetingReadOps, u \in Users, mid \in MeetingRequestIds :
       MeetingRead(op, u, mid)
  \/ \E u \in Users, mid \in MeetingRequestIds, valid \in BOOLEAN :
       PatchTranscript(u, mid, valid)
  \/ \E u \in Users, mid \in MeetingRequestIds, valid \in BOOLEAN :
       PatchExtraction(u, mid, valid)
  \/ \E u \in Users, mid \in MeetingRequestIds : DeleteMeeting(u, mid)

\* the routes that take the id of a meeting or of a live session, in a
\* MOCK_MODE process
NextOwned ==
  \/ \E u \in Users : Len(live_sessions) < MaxOwnedSessions /\ Start(u)
  \/ \E u \in Users, sid \in RequestIds : Len(conns) < MaxConns /\ Stream(u, sid)
  \/ \E u \in Users, sid \in RequestIds, hasFile \in BOOLEAN :
       Chunk(u, sid, hasFile, Undefined)
  \/ \E u \in Users, sid \in RequestIds : Stop(u, sid)
  \/ \E u \in Users, sid \in RequestIds : Status(u, sid)
  \/ \E u \in Users, sid \in RequestIds : MemoryHints(u, sid)
  \/ \E u \in Users, valid \in BOOLEAN :
       Len(meetings) < MaxOwnedMeetings /\ SaveMeeting(u, valid)
  \/ MeetingRequests

SpecOwned == InitStore /\ [][NextOwned]_vars

\* POST /api/meetings/extract alone.  User 1 is on the free plan, user 2 on
\* one of the paid plans; a user has no usage row yet or has used all but one
\* of the extracts of the plan in month 1.
PaidPlans == Plans \ {"free"}

UsageBefore(u, p) ==
  { <<>>,
    (<<u, 1>> :> (IF p = "free" THEN PLAN_LIMITS(p).lifetime
                  ELSE PLAN_LIMITS(p).monthly) - 1) }

InitUsage ==
  /\ env \in Environments
  /\ \E p \in PaidPlans : plan = [u \in Users |-> IF u = 1 THEN "free" ELSE p]
  /\ \E a \in UsageBefore(1, "free"), b \in UsageBefore(2, plan[2]) : usage = a @@ b
  /\ month = 1
  /\ extractRequests = 0
  /\ fileRuns = <<>>
  /\ is_lifetime = [u \in Users |-> IF plan[u] \in {"ltd", "fltd"} THEN 1 ELSE 0]
  /\ protect_lifetime_flag = TRUE
  /\ stripe_customer_id = [u \in Users |-> NULL]
  /\ stripe_subscription_id = [u \in Users |-> NULL]
  /\ subscription_status = [u \in Users |-> "none"]
  /\ checkouts = {}
  /\ rawText = <<>>
  /\ result = NoResult
  /\ now = 0
  /\ client = SetupPage
  /\ liveTranscript = <<>>
  /\ delivered = [c \in 1..MaxPushConns |-> 0]
  /\ hits = [l \in Limiters |-> [ip \in IPs |-> NoEntry]]
  /\ limited = <<>>
  /\ meetings = <<>>
  /\ live_sessions = <<>>
  /\ transcript_segments = <<>>
  /\ activeStreams = <<>>
  /\ conns = <<>>
  /\ mockSegmentIndex = 0
  /\ inflight = EmptyBag
  /\ resp = NoResp

NextUsage ==
  \/ \E u \in Users, notes \in NotesKinds : Extract(u, notes)
  \/ \E h \in BagToSet(inflight), outcome \in ExtractOutcomes : ExtractSettled(h, outcome)
  \/ NewMonth

SpecUsage == InitUsage /\ [][NextUsage]_vars

\* the handlers that receive or download audio, seen from the temp directory
NextFiles ==
  \/ \E hasFile, quotaOk \in BOOLEAN, t \in Transcriptions :
       UploadFiles(hasFile, quotaOk, t)
  \/ \E hasFile, found, active \in BOOLEAN, t \in Transcriptions :
       ChunkFiles(hasFile, found, active, t)
  \/ \E valid, quotaOk \in BOOLEAN, outcome \in ImportOutcomes :
       ImportFiles(valid, quotaOk, outcome)

SpecFiles == Init /\ [][NextFiles]_vars

\* the statements that write users.plan and users.is_lifetime
NextUsers ==
  \/ \E u \in Users, p \in Plans, lifetime \in {0, 1} : UpdateUsers(u, p, lifetime)
  \/ \E u \in Users, known \in BOOLEAN, p \in Plans, force \in BOOLEAN,
        sql \in SqlOutcomes : AdminUpgrade(u, known, p, force, sql)
  \/ \E u \in Users, p \in Plans : LifetimePurchase(u, p)
  \/ DropTrigger
  \/ CreateTrigger

SpecUsers == Init /\ [][NextUsers]_vars

\* POST /api/live/:id/memory-hints for a session that fills while the store
\* holds meetings of both users, saved earlier with notes of HintNotes
HintNotes ==
  { <<"dashboard", " ", "authentication">>,
    <<"budget", " ", "the", " ", "login">> }

\* what the speech-to-text provider returns here
HintTexts == { <<"dashboard", " ", "authentication">>, <<"budget">>, <<"the">> }

InitHints ==
  /\ env = [MOCK_MODE |-> FALSE, OPENAI_API_KEY |-> TRUE, CLAUDE_API_KEY |-> FALSE]
  /\ plan = [u \in Users |-> "ltd"]
  /\ meetings \in [1..HintMeetings ->
                     [user_id : Users, raw_notes : HintNotes,
                      action_items : {EmptyExtraction}, created_at : {0}]]
  /\ live_sessions = <<>>
  /\ transcript_segments = <<>>
  /\ activeStreams = <<>>
  /\ conns = <<>>
  /\ mockSegmentIndex = 0
  /\ inflight = EmptyBag
  /\ resp = NoResp
  /\ usage = <<>>
  /\ month = 1
  /\ extractRequests = 0
  /\ fileRuns = <<>>
  /\ is_lifetime = [u \in Users |-> 1]
  /\ protect_lifetime_flag = TRUE
  /\ stripe_customer_id = [u \in Users |-> NULL]
  /\ stripe_subscription_id = [u \in Users |-> NULL]
  /\ subscription_status = [u \in Users |-> "none"]
  /\ checkouts = {}
  /\ rawText = <<>>
  /\ result = NoResult
  /\ now = 0
  /\ client = SetupPage
  /\ liveTranscript = <<>>
  /\ delivered = [c \in 1..MaxPushConns |-> 0]
  /\ hits = [l \in Limiters |-> [ip \in IPs |-> NoEntry]]
  /\ limited = <<>>

NextHints ==
  \/ \E u \in Users : Len(live_sessions) < MaxHintSessions /\ Start(u)
  \/ \E u \in Users, sid \in RequestIds, hasFile \in BOOLEAN :
       Chunk(u, sid, hasFile, Undefined)
  \/ \E h \in BagToSet(inflight), ok \in BOOLEAN, text \in HintTexts :
       ChunkTranscribed(h, ok, text)
  \/ \E u \in Users, sid \in RequestIds : MemoryHints(u, sid)

SpecHints == InitHints /\ [][NextHints]_vars

\* GET /api/meetings/:id/insights and /whatchanged over meetings saved at
\* different seconds and within the same second
SprintPlanningNotes ==
  <<"Attendees", ":", " ", "Sarah", ",", " ", "John", "\n", "\n",
    "Sarah", ":", " ", "dashboard", " ", "redesign", " ", "is", " ", "done", ".", " ",
    "John", ":", " ", "fix", " ", "the", " ", "authentication", " ", "bug", " ",
    "by", " ", "Friday", ".">>

SprintReviewNotes ==
  <<"Attendees", ":", " ", "Sarah", ",", " ", "John", ",", " ", "Mike", "\n", "\n",
    "Sarah", ":", " ", "dashboard", " ", "redesign", " ", "feedback", " ",
    "positive", ".", " ",
    "John", ":", " ", "authentication", " ", "bug", " ", "is", " ", "still", " ",
    "open", " ", "on", " ", "staging", ".", " ",
    "Mike", ":", " ", "client", " ", "onboarding", " ", "went", " ", "well", ".">>

InsightNotes ==
  { SprintPlanningNotes, SprintReviewNotes,
    <<"dashboard", " ", "authentication">>, <<"budget", " ", "dashboard">> }

\* the second passes
Tick ==
  /\ now < MaxClock
  /\ now' = now + 1
  /\ UNCHANGED <<clientVars, limitVars, jsonVars, userVars, fileVars, usageVars, env, plan,
                 meetings, live_sessions, transcript_segments, activeStreams, conns,
                 mockSegmentIndex, inflight, resp>>

InitInsights ==
  /\ env = [MOCK_MODE |-> TRUE, OPENAI_API_KEY |-> FALSE, CLAUDE_API_KEY |-> FALSE]
  /\ plan = [u \in Users |-> "ltd"]
  /\ meetings \in [1..InsightMeetings ->
                     [user_id : Users, raw_notes : InsightNotes,
                      action_items : {EmptyExtraction}, created_at : 0..1]]
  /\ \A m \in 1..(InsightMeetings - 1) :
       meetings[m].created_at <= meetings[m + 1].created_at
  /\ now = meetings[InsightMeetings].created_at
  /\ client = SetupPage
  /\ liveTranscript = <<>>
  /\ delivered = [c \in 1..MaxPushConns |-> 0]
  /\ hits = [l \in Limiters |-> [ip \in IPs |-> NoEntry]]
  /\ limited = <<>>
  /\ live_sessions = <<>>
  /\ transcript_segments = <<>>
  /\ activeStreams = <<>>
  /\ conns = <<>>
  /\ mockSegmentIndex = 0
  /\ inflight = EmptyBag
  /\ resp = NoResp
  /\ usage = <<>>
  /\ month = 1
  /\ extractRequests = 0
  /\ fileRuns = <<>>
  /\ is_lifetime = [u \in Users |-> 1]
  /\ protect_lifetime_flag = TRUE
  /\ stripe_customer_id = [u \in Users |-> NULL]
  /\ stripe_subscription_id = [u \in Users |-> NULL]
  /\ subscription_status = [u \in Users |-> "none"]
  /\ checkouts = {}
  /\ rawText = <<>>
  /\ result = NoResult

NextInsights ==
  \/ Tick
  \/ \E u \in Users, valid \in BOOLEAN :
       Len(meetings) < MaxInsightMeetings /\ SaveMeeting(u, valid)
  \/ \E op \in MeetingReadOps, u \in Users, mid \in MeetingRequestIds :
       MeetingRead(op, u, mid)
  \/ \E u \in Users, mid \in MeetingRequestIds : DeleteMeeting(u, mid)

SpecInsights == InitInsights /\ [][NextInsights]_vars

\* POST /api/live/:id/chunk with and without a timestamp_ms field, while
\* the clock runs
TimestampFields == { Undefined, <<"0">>, <<"5">>, <<"-", "5">>, <<"a">>, <<"7", "x">> }

NextChunks ==
  \/ Tick
  \/ \E u \in Users : Len(live_sessions) < MaxChunkSessions /\ Start(u)
  \/ \E u \in Users, sid \in RequestIds :
       Len(conns) < MaxChunkConns /\ Stream(u, sid)
  \/ \E u \in Users, sid \in RequestIds, hasFile \in BOOLEAN,
        timestamp_ms \in TimestampFields :
       Chunk(u, sid, hasFile, timestamp_ms)
  \/ \E h \in BagToSet(inflight), ok \in BOOLEAN, text \in WhisperTexts :
       ChunkTranscribed(h, ok, text)

SpecChunks == Init /\ [][NextChunks]_vars

\* createRateLimiter({ windowMs, max }): the options of the two limiters, the
\* window in the unit of now
windowMs(l) == SmallWindowMs
max(l) == IF l = "startLimiter" THEN SmallStartMax ELSE SmallExtractMax

\* entry.count >= max, one request early
TooMany_AtMax(count, l) == count >= max(l)

\* line 35: entry.count > max
TooMany(count, l) == count > max(l)

\* line 28: !entry || now - entry.start > windowMs
WindowOver(entry, l) == entry = NoEntry \/ now - entry.start > windowMs(l)

\* what the middleware writes to hits for a request
HitsAfter(l, ip) ==
  IF WindowOver(hits[l][ip], l)
  THEN [hits EXCEPT ![l][ip] = [start |-> now, count |-> 1]]
  ELSE [hits EXCEPT ![l][ip].count = @ + 1]

\* the middleware calls next(); otherwise it answers 429
Passes(l, ip) == WindowOver(hits[l][ip], l) \/ ~TooMany(hits[l][ip].count + 1, l)

\* lines 23-42: the middleware of limiter l for a request from ip
RateLimit(l, ip) ==
  /\ Len(limited) < MaxLimited
  /\ hits' = HitsAfter(l, ip)
  /\ limited' = Append(limited, [limiter |-> l, ip |-> ip, at |-> now,
                                 passed |-> Passes(l, ip)])
  /\ UNCHANGED <<clientVars, clockVars, jsonVars, userVars, fileVars, usageVars, env, plan,
                 meetings, live_sessions, transcript_segments, activeStreams, conns,
                 mockSegmentIndex, inflight, resp>>

\* lines 15-20: the cleanup timer of limiter l fires
Cleanup(l) ==
  /\ hits' = [hits EXCEPT ![l] =
       [ip \in IPs |-> IF hits[l][ip] # NoEntry /\ now - hits[l][ip].start > windowMs(l)
                       THEN NoEntry ELSE hits[l][ip]]]
  /\ UNCHANGED <<limited, clientVars, clockVars, jsonVars, userVars, fileVars, usageVars, env,
                 plan, meetings, live_sessions, transcript_segments, activeStreams,
                 conns, mockSegmentIndex, inflight, resp>>

\* the clock of the limiters
LimitTick ==
  /\ now < MaxLimitClock
  /\ now' = now + 1
  /\ UNCHANGED <<clientVars, limitVars, jsonVars, userVars, fileVars, usageVars, env, plan,
                 meetings, live_sessions, transcript_segments, activeStreams, conns,
                 mockSegmentIndex, inflight, resp>>

NextLimit ==
  \/ LimitTick
  \/ \E l \in Limiters, ip \in IPs : RateLimit(l, ip)
  \/ \E l \in Limiters : Cleanup(l)

SpecLimit == InitStore /\ [][NextLimit]_vars

\* ------------------------------ chunked recording of the page
\* new MediaRecorder(audioStream) after start(): audio tells whether it had
\* captured data when it was stopped, stopEvent that its dataavailable and
\* stop events are queued, by which caller stopped it
NewRecorder == [state |-> "recording", audio |-> FALSE, stopEvent |-> FALSE, by |-> ""]

\* mediaRecorder && mediaRecorder.state === 'recording'
IsRecording(c) ==
  c.mediaRecorder # NULL /\ c.recorders[c.mediaRecorder].state = "recording"

\* mediaRecorder.stop(): the state changes at once, the events come later
stop(c, audio, by) ==
  [c EXCEPT !.recorders[c.mediaRecorder] =
     [state |-> "inactive", audio |-> audio, stopEvent |-> TRUE, by |-> by]]

\* lines 633-686: captureOneChunk up to the registration of the 5 s timer
captureOneChunk(c) ==
  IF c.isStopping \/ ~c.audioStream THEN c
  ELSE IF c.isPaused THEN [c EXCEPT !.captureTimers = @ + 1]
  ELSE [c EXCEPT !.recorders = Append(@, NewRecorder),
                 !.mediaRecorder = Len(c.recorders) + 1,
                 !.stopTimers = @ + 1]

\* lines 696-710: sendChunk up to its fetch
sendChunk(c, i) ==
  IF ~c.sessionId THEN c
  ELSE [c EXCEPT !.requests = Append(@, [op |-> "chunk", recorder |-> i])]

\* lines 660-675: mediaRecorder.onstop of recorder i
onstop(c, i) ==
  LET c1 == [c EXCEPT !.recorders[i].stopEvent = FALSE]
      c2 == sendChunk([c1 EXCEPT !.chunkCounter = @ + 1], i)
  IN  IF ~c.recorders[i].audio \/ c.isStopping THEN c1
      ELSE IF ~c2.isStopping /\ ~c2.isPaused THEN captureOneChunk(c2)
      ELSE IF c2.isPaused THEN [c2 EXCEPT !.captureTimers = @ + 1]
      ELSE c2

\* the page state stays within the bounds of the model
Within(c) ==
  /\ Len(c.recorders) <= MaxRecorders
  /\ c.captureTimers <= MaxTimers
  /\ c.stopTimers <= MaxTimers

\* one step of the page script to the state c
PageStep(c) ==
  /\ Within(c)
  /\ client' = c
  /\ UNCHANGED <<liveTranscript, delivered, limitVars, clockVars, jsonVars, userVars,
                 fileVars, usageVars, env, plan, meetings, live_sessions,
                 transcript_segments, activeStreams, conns, mockSegmentIndex,
                 inflight, resp>>

\* lines 546-563: startLiveSession, once the microphone and the session are there
StartLiveSession ==
  /\ client.phase = "setup"
  /\ PageStep(captureOneChunk([client EXCEPT !.phase = "session",
                                             !.audioStream = TRUE,
                                             !.sessionId = TRUE,
                                             !.isStopping = FALSE,
                                             !.chunkCounter = 0]))

\* lines 787-803: a click on the pause button
PauseClick(audio) ==
  /\ client.phase \in {"session", "stopping"}
  /\ PageStep(IF ~client.isPaused
              THEN LET c == [client EXCEPT !.isPaused = TRUE]
                   IN  IF IsRecording(c) THEN stop(c, audio, "pause") ELSE c
              ELSE captureOneChunk([client EXCEPT !.isPaused = FALSE]))

\* the dataavailable and stop events of recorder i are dispatched
RecorderStopped(i) ==
  /\ i \in 1..Len(client.recorders)
  /\ client.recorders[i].stopEvent
  /\ PageStep(onstop(client, i))

\* a timer set by setTimeout(captureOneChunk, 1000) fires
CaptureTimer ==
  /\ client.captureTimers > 0
  /\ PageStep(captureOneChunk([client EXCEPT !.captureTimers = @ - 1]))

\* lines 681-685: a 5 s timer fires
StopTimer(audio) ==
  /\ client.stopTimers > 0
  /\ PageStep(LET c == [client EXCEPT !.stopTimers = @ - 1]
              IN  IF IsRecording(c) THEN stop(c, audio, "timer") ELSE c)

\* lines 813-823: stopMeeting up to its wait of 500 ms
StopClick(audio) ==
  /\ client.phase = "session"
  /\ PageStep(LET c == [client EXCEPT !.isStopping = TRUE, !.phase = "stopping"]
              IN  IF IsRecording(c) THEN stop(c, audio, "stopMeeting") ELSE c)

\* lines 825-863: the rest of stopMeeting up to the fetch of /stop
StopDelayElapsed ==
  /\ client.phase = "stopping"
  /\ PageStep([client EXCEPT !.audioStream = FALSE,
                             !.sessionId = FALSE,
                             !.phase = "processing",
                             !.requests = Append(@, [op |-> "stop", recorder |-> NULL])])

NextRecorder ==
  \/ StartLiveSession
  \/ \E audio \in BOOLEAN : PauseClick(audio)
  \/ \E i \in 1..MaxRecorders : RecorderStopped(i)
  \/ CaptureTimer
  \/ \E audio \in BOOLEAN : StopTimer(audio)
  \/ \E audio \in BOOLEAN : StopClick(audio)
  \/ StopDelayElapsed

SpecRecorder == InitStore /\ [][NextRecorder]_vars

\* ------------------------------ the transcript shown by the page
\* lines 730-750: appendSegment adds one element with the segment's data-index
appendSegment(shown, segment) == Append(shown, segment.segment_index)

\* lines 583-592: eventSource.onmessage runs for events without a name
onmessage(shown, ev) == IF ev.event = "data" THEN appendSegment(shown, ev) ELSE shown

\* connection c is the EventSource of the page: the latest connection of its
\* session, open, every earlier one of the session closed
IsEventSource(c) ==
  /\ c \in 1..Len(conns)
  /\ ~conns[c].closed
  /\ \A d \in 1..Len(conns) :
       conns[d].session = conns[c].session /\ d # c => d < c /\ conns[d].closed

\* the next event written to connection c reaches the page
Deliver(c) ==
  /\ IsEventSource(c)
  /\ delivered[c] < Len(conns[c].log)
  /\ delivered' = [delivered EXCEPT ![c] = @ + 1]
  /\ liveTranscript' = onmessage(liveTranscript, conns[c].log[delivered[c] + 1])
  /\ UNCHANGED <<client, limitVars, clockVars, jsonVars, userVars, fileVars, usageVars,
                 env, plan, meetings, live_sessions, transcript_segments,
                 activeStreams, conns, mockSegmentIndex, inflight, resp>>

\* one page that records a session, loses its connection and reconnects
NextDisplay ==
  \/ \E u \in Users : Len(live_sessions) < MaxPushSessions /\ Start(u)
  \/ \E u \in Users, sid \in RequestIds :
       Len(conns) < MaxPushConns /\ Stream(u, sid)
  \/ \E u \in Users, sid \in RequestIds, hasFile \in BOOLEAN :
       Chunk(u, sid, hasFile, Undefined)
  \/ \E c \in 1..Len(conns) : StreamClose(c)
  \/ \E c \in 1..MaxPushConns : Deliver(c)

SpecDisplay == InitStore /\ [][NextDisplay]_vars

\* safeJsonParse alone, on the texts of JsonInputs
StringTokens == {"x", FENCE, ",", "}", " "}

\* the strings of at most n tokens
Strings(n) == UNION {[1..k -> StringTokens] : k \in 0..n}

\* {"task": ..., "owner": ..., "deadline": ...}
Item(task) ==
  JObj(<<JMem("task", JStr(task)), JMem("owner", JStr(<<"x">>)),
         JMem("deadline", JStr(<<"x">>))>>)

\* {"action_items": [...], "follow_up_email": ...}
ExtractionRecord(items, email) ==
  JObj(<<JMem("action_items", JArr(items)), JMem("follow_up_email", JStr(email))>>)

ExtractionRecords ==
  { ExtractionRecord(items, email) :
      items \in {<<>>} \cup {<<Item(task)>> : task \in Strings(MaxTaskLen)},
      email \in Strings(MaxEmailLen) }

\* the places of the closing brackets that are not inside a string
ClosingPositions(text) ==
  { i \in 1..Len(text) :
      /\ text[i] \in {"}", "]"}
      /\ Cardinality({j \in 1..(i - 1) : text[j] = "\""}) % 2 = 0 }

InsertAt(text, i, c) == SubSeq(text, 1, i - 1) \o <<c>> \o SubSeq(text, i, Len(text))

\* how a model surrounds its JSON
Wrappings == {"plain", "fenced", "prose"}

Wrap(w, text) ==
  CASE w = "plain" -> text
    [] w = "fenced" -> <<FENCE, "json", " ">> \o text \o <<" ", FENCE>>
    [] w = "prose" -> <<"x", " ">> \o text \o <<" ", "x">>

\* the serialization of a record with a comma put before one closing bracket
TrailingCommaCases ==
  { [obj |-> obj, text |-> Wrap(w, InsertAt(JSONstringify(obj), i, ","))] :
      <<obj, i, w>> \in
        { c \in ExtractionRecords \X (1..MaxJsonLen) \X Wrappings :
            c[2] \in ClosingPositions(JSONstringify(c[1])) } }

ArbitraryTokens == {"{", "}", "[", "]", "\"", ",", "1", "null", "x", " "}

ArbitraryTexts == UNION {[1..k -> ArbitraryTokens] : k \in 0..MaxTextLen}

JsonInputs ==
  {JSONstringify(obj) : obj \in ExtractionRecords}
    \cup {c.text : c \in TrailingCommaCases}
    \cup ArbitraryTexts

InitJson ==
  /\ rawText \in JsonInputs
  /\ result = NoResult
  /\ now = 0
  /\ client = SetupPage
  /\ liveTranscript = <<>>
  /\ delivered = [c \in 1..MaxPushConns |-> 0]
  /\ hits = [l \in Limiters |-> [ip \in IPs |-> NoEntry]]
  /\ limited = <<>>
  /\ env = [MOCK_MODE |-> FALSE, OPENAI_API_KEY |-> TRUE, CLAUDE_API_KEY |-> TRUE]
  /\ plan = [u \in Users |-> UserPlan(u)]
  /\ meetings = <<>>
  /\ live_sessions = <<>>
  /\ transcript_segments = <<>>
  /\ activeStreams = <<>>
  /\ conns = <<>>
  /\ mockSegmentIndex = 0
  /\ inflight = EmptyBag
  /\ resp = NoResp
  /\ usage = <<>>
  /\ month = 1
  /\ extractRequests = 0
  /\ fileRuns = <<>>
  /\ is_lifetime = [u \in Users |-> IF plan[u] \in {"ltd", "fltd"} THEN 1 ELSE 0]
  /\ protect_lifetime_flag = TRUE
  /\ stripe_customer_id = [u \in Users |-> NULL]
  /\ stripe_subscription_id = [u \in Users |-> NULL]
  /\ subscription_status = [u \in Users |-> "none"]
  /\ checkouts = {}

NextJson == Decode

SpecJson == InitJson /\ [][NextJson]_vars

\* the billing routes read none of the env fields modelled
InitBilling == Init /\ env.MOCK_MODE

NextBilling ==
  \/ \E u \in Users, p \in Plans : CreateCheckoutSession(u, p)
  \/ Webhook

SpecBilling == InitBilling /\ [][NextBilling]_vars

\* the users the admin and the checkout pages act for: the lifetime user
AccountUsers == {u \in Users : UserPlan(u) = "ltd"}

\* the requests that write users.plan and users.is_lifetime: the admin
\* upgrade, the checkout pages and the webhook events, in any order; the rows
\* of Init are as signup (and, for user 2, a lifetime purchase) left them
NextAccounts ==
  \/ \E u \in AccountUsers, known \in BOOLEAN, p \in Plans, force \in BOOLEAN,
        sql \in SqlOutcomes : AdminUpgrade(u, known, p, force, sql)
  \/ \E u \in AccountUsers, p \in Plans : CreateCheckoutSession(u, p)
  \/ Webhook

SpecAccounts == InitBilling /\ [][NextAccounts]_vars

\* ======================================================================
\* Properties
\* ======================================================================

\* C1: each user owns at most one live session whose status is active,
\* after any interleaving of the /api/live requests.
C1_SingleActive == \A u \in Users : Cardinality(ActiveSessionsOf(u)) <= 1

\* a user who has started a second session after the first one ended
C1_Witness ==
  \E u \in Users :
    /\ Cardinality({s \in SessionIds : live_sessions[s].user_id = u}) >= 2
    /\ ActiveSessionsOf(u) # {}

\* C2: a start by a user who owns an active session is answered 409
\* session_active with the id of that session, whatever the plan and the
\* number of stored meetings (and so inserts no row, see Start).
C2_StartWhileActiveIs409 ==
  \A u \in Users :
    ActiveSessionsOf(u) # {} =>
      StartReply(u) = [Reply("start", u, NULL, 409, "session_active")
                         EXCEPT !.session_id = FirstActiveSession(u)]

\* C3: the segment_index values of every session are exactly 0..n-1 for its
\* n rows: no duplicate, no gap; silent and failed chunks take no index.
C3_SegmentIndexesDense ==
  \A sid \in SessionIds :
    LET rows == SegmentsOf(sid)
    IN  {rows[i].segment_index : i \in 1..Len(rows)} = 0..(Len(rows) - 1)

\* two segments stored for a session while another chunk of it is in flight
C3_Witness ==
  \E sid \in SessionIds :
    /\ Len(SegmentsOf(sid)) >= 2
    /\ resp.op = "chunk" /\ resp.sid = sid /\ resp.segment_index = 1
    /\ \E h \in BagToSet(inflight) : h.op = "chunk" /\ h.sid = sid

\* C4: when a stop of a session with at least one segment has responded, the
\* session is completed with ended_at set and linked to the meeting just
\* created for its owner, and that meeting's raw_notes is the blank-line join
\* of the texts of all segments the session has at that moment, in
\* segment_index order.
C4_StopSavesAllSegments ==
  (resp.op = "stop" /\ resp.status = 200 /\ resp.meeting_id # NULL) =>
    LET s == live_sessions[resp.sid]
        m == resp.meeting_id
    IN  /\ s.status = "completed"
        /\ s.ended_at = "now"
        /\ s.meeting_id = m
        /\ m = Len(meetings)
        /\ meetings[m].user_id = s.user_id
        /\ meetings[m].raw_notes = JoinBlankLine(TextsOf(SegmentsOrdered(resp.sid)))

\* the reply of a stop that found no segment
NoTranscriptReply(u, sid) ==
  [Reply("stop", u, sid, 200, "") EXCEPT !.message = "No transcript was captured."]

\* C5: a stop of an active session without segments is answered 200 with
\* meeting_id null and the 'No transcript' message; the step sets the session
\* to failed with ended_at set and meeting_id null and adds no meeting.
C5_EmptyStopFails ==
  [][\A u \in Users, sid \in SessionIds :
       ( /\ live_sessions[sid].user_id = u
         /\ live_sessions[sid].status = "active"
         /\ Len(SegmentsOf(sid)) = 0
         /\ Stop(u, sid) )
       => /\ resp' = NoTranscriptReply(u, sid)
          /\ resp'.meeting_id = NULL
          /\ live_sessions' = [live_sessions EXCEPT ![sid] =
               [user_id |-> u, status |-> "failed", ended_at |-> "now",
                meeting_id |-> NULL]]
          /\ meetings' = meetings]_vars

\* a stop has just failed a session without segments while a meeting of an
\* earlier session is stored
C5_Witness ==
  /\ resp.op = "stop" /\ resp.status = 200 /\ resp.meeting_id = NULL
  /\ resp.message = "No transcript was captured."
  /\ live_sessions[resp.sid].status = "failed"
  /\ Len(SegmentsOf(resp.sid)) = 0
  /\ Len(meetings) >= 1

\* C6: a completed session has at least one segment and a meeting_id; a
\* failed session has no segment and no meeting_id.
C6_TerminalShape ==
  \A sid \in SessionIds :
    /\ live_sessions[sid].status = "completed" =>
         Len(SegmentsOf(sid)) >= 1 /\ live_sessions[sid].meeting_id # NULL
    /\ live_sessions[sid].status = "failed" =>
         Len(SegmentsOf(sid)) = 0 /\ live_sessions[sid].meeting_id = NULL

Terminal(sid) == live_sessions[sid].status \in {"completed", "failed"}

\* C7: a stop, chunk or stream request for a completed or failed session is
\* answered 400 'Session is not active'; a step of such a request changes
\* nothing (so neither the session row, its segments, the meetings nor the
\* registry); and no step makes a completed or failed session active.
C7_TerminalRejected ==
  /\ [](\A sid \in SessionIds :
          Terminal(sid) =>
            LET u == live_sessions[sid].user_id
            IN  /\ StopReply(u, sid) = Reply("stop", u, sid, 400, "Session is not active")
                /\ StreamReply(u, sid) =
                     Reply("stream", u, sid, 400, "Session is not active")
                /\ \A hasFile \in BOOLEAN :
                     ChunkReply(u, sid, hasFile) =
                       Reply("chunk", u, sid, 400, "Session is not active"))
  /\ [][\A sid \in SessionIds :
          (vars' # vars /\ Terminal(sid)) =>
            LET u == live_sessions[sid].user_id
            IN  /\ ~Stop(u, sid)
                /\ ~Stream(u, sid)
                /\ \A hasFile \in BOOLEAN : ~Chunk(u, sid, hasFile, Undefined)
                /\ live_sessions'[sid].status # "active"]_vars

\* one user owns a completed session that has a segment and a failed
\* session
C7_Witness ==
  \E a, b \in SessionIds :
    /\ live_sessions[a].status = "completed"
    /\ live_sessions[b].status = "failed"
    /\ live_sessions[a].user_id = live_sessions[b].user_id
    /\ Len(SegmentsOf(a)) >= 1

Blank(text) == \A i \in 1..Len(text) : IsSpace(text[i])

\* C9: a chunk whose transcription fails is answered 500; the step inserts no
\* segment, writes nothing to a push connection and leaves the session (and
\* registry and meetings) as they are; after it a chunk of the same session
\* whose transcription succeeds gets the number of stored segments as index.
C9_FailedChunkIsolated ==
  /\ [](/\ \A sid \in SessionIds :
             (~env.MOCK_MODE /\ ~env.OPENAI_API_KEY
                /\ live_sessions[sid].status = "active") =>
               ChunkReply(live_sessions[sid].user_id, sid, TRUE) =
                 Reply("chunk", live_sessions[sid].user_id, sid, 500,
                       "Transcription failed for this chunk")
        /\ (resp.op = "chunk" /\ resp.status = 500) =>
             \A text \in WhisperTexts : ~Blank(text) =>
               ChunkSettledReply(resp.user, resp.sid, TRUE, text) =
                 [Reply("chunk", resp.user, resp.sid, 200, "")
                    EXCEPT !.segment_index = Len(SegmentsOf(resp.sid))])
  /\ [][\A h \in BagToSet(inflight), text \in WhisperTexts :
          ChunkTranscribed(h, FALSE, text) =>
            /\ resp' = Reply("chunk", h.user, h.sid, 500,
                             "Transcription failed for this chunk")
            /\ UNCHANGED <<transcript_segments, conns, activeStreams,
                           live_sessions, meetings>>]_vars

\* a chunk has just failed for an active session that has a segment and
\* a subscriber, while another chunk of the session is in flight
C9_Witness ==
  /\ resp.op = "chunk" /\ resp.status = 500
  /\ live_sessions[resp.sid].status = "active"
  /\ Len(SegmentsOf(resp.sid)) = 1
  /\ resp.sid \in DOMAIN activeStreams
  /\ \E h \in BagToSet(inflight) : h.op = "chunk" /\ h.sid = resp.sid

\* C10: a chunk whose transcription is empty or only whitespace is answered
\* {ok: true, segment_index: null, silent: true}; the step inserts no segment
\* and pushes no event, and the index a non-silent chunk of the session gets
\* next is the one it would have got before.
C10_SilentChunk ==
  [][\A h \in BagToSet(inflight), text \in WhisperTexts :
       (Blank(text) /\ ChunkTranscribed(h, TRUE, text)) =>
         /\ resp' = [Reply("chunk", h.user, h.sid, 200, "") EXCEPT !.silent = TRUE]
         /\ resp'.segment_index = NULL
         /\ UNCHANGED <<transcript_segments, conns>>
         /\ \A t \in WhisperTexts : ~Blank(t) =>
              /\ ChunkSettledReply(h.user, h.sid, TRUE, t).segment_index =
                   Len(SegmentsOf(h.sid))
              /\ ChunkSettledReply(h.user, h.sid, TRUE, t)' =
                   ChunkSettledReply(h.user, h.sid, TRUE, t)]_vars

\* a silent chunk has been answered for a session that has one segment and
\* a subscriber
C10_Witness ==
  /\ resp.op = "chunk" /\ resp.status = 200 /\ resp.silent
  /\ resp.segment_index = NULL
  /\ Len(SegmentsOf(resp.sid)) = 1
  /\ resp.sid \in DOMAIN activeStreams

\* the connection the registry holds for a session, if any
Registered(c) ==
  conns[c].session \in DOMAIN activeStreams /\ activeStreams[conns[c].session] = c

\* C11: on every push connection the first event is connected; the segment
\* events follow it without a gap and carry the indexes 0, 1, 2, ... in this
\* order (so they are strictly increasing, none twice, none skipped); a newly
\* accepted connection has been sent every segment stored at that time, and
\* the registered connection of a session has been sent every stored segment.
C11_PushOrder ==
  /\ [](\A c \in 1..Len(conns) :
          LET log == conns[c].log
          IN  /\ Len(log) >= 1 /\ log[1] = NamedEvent("connected")
              /\ \A i \in 2..Len(log) :
                   log[i].event = "data" => log[i].segment_index = i - 2
              /\ \A i \in 2..Len(log) :
                   log[i].event # "data" => i = Len(log)
              /\ Registered(c) =>
                   /\ Len(log) = 1 + Len(SegmentsOf(conns[c].session))
                   /\ \A i \in 2..Len(log) : log[i].event = "data")
  /\ [][Len(conns') = Len(conns) + 1 =>
          LET c == Len(conns')
              rows == SegmentsOrdered(conns'[c].session)
          IN  /\ conns'[c].session \in DOMAIN activeStreams'
              /\ activeStreams'[conns'[c].session] = c
              /\ conns'[c].log = <<NamedEvent("connected")>> \o
                   [i \in 1..Len(rows) |->
                      SegmentEvent(rows[i].segment_index, rows[i].timestamp_ms)]]_vars

\* a second connection of a session was sent segment 0 as replay and
\* segment 1 when it was inserted; the first one, open still, has only 0
C11_Witness ==
  \E c1, c2 \in 1..Len(conns) :
    /\ c1 < c2 /\ conns[c1].session = conns[c2].session
    /\ ~conns[c1].closed /\ ~conns[c1].writableEnded
    /\ conns[c1].log = <<NamedEvent("connected"), SegmentEvent(0, DateNow)>>
    /\ conns[c2].log = <<NamedEvent("connected"), SegmentEvent(0, DateNow), SegmentEvent(1, DateNow)>>

\* C12: a stop accepted for a session with a registered subscriber writes
\* stopped to that connection, ends it, clears its keepalive timer and removes
\* its registry entry; a connection the server has ended has stopped as its
\* last event and is not in the registry, and nothing follows a stopped event.
C12_StopClosesSubscriber ==
  /\ [](\A c \in 1..Len(conns) :
          LET log == conns[c].log
          IN  /\ conns[c].writableEnded =>
                   /\ log[Len(log)] = NamedEvent("stopped")
                   /\ ~conns[c].keepaliveTimer
                   /\ ~Registered(c)
              /\ \A i \in 1..Len(log) :
                   log[i].event = "stopped" => i = Len(log) /\ conns[c].writableEnded)
  /\ [][\A u \in Users, sid \in SessionIds :
          ( /\ live_sessions[sid].user_id = u
            /\ live_sessions[sid].status = "active"
            /\ sid \in DOMAIN activeStreams
            /\ Stop(u, sid) )
          => LET c == activeStreams[sid]
             IN  /\ conns'[c].log = Append(conns[c].log, NamedEvent("stopped"))
                 /\ conns'[c].writableEnded
                 /\ ~conns'[c].keepaliveTimer
                 /\ sid \notin DOMAIN activeStreams']_vars

\* a subscriber was sent segment 0 and then stopped, and the session got a
\* second segment after that
C12_Witness ==
  \E c \in 1..Len(conns) :
    /\ conns[c].writableEnded
    /\ conns[c].log = <<NamedEvent("connected"), SegmentEvent(0, DateNow), NamedEvent("stopped")>>
    /\ Len(SegmentsOf(conns[c].session)) = 2

\* a connection neither ended by the server nor closed by its client
Open(c) == ~conns[c].closed /\ ~conns[c].writableEnded

ConnsOf(sid) == {c \in 1..Len(conns) : conns[c].session = sid}

\* C13: at any time a session has at most one open push connection.
C13_OneOpenConnection ==
  \A sid \in SessionIds : Cardinality({c \in ConnsOf(sid) : Open(c)}) <= 1

\* C14: while the most recently accepted push connection of an active session
\* is open, it has been sent every segment stored for the session, whatever
\* earlier connections of the session did.
C14_LatestConnectionGetsAll ==
  \A sid \in SessionIds :
    (live_sessions[sid].status = "active" /\ ConnsOf(sid) # {}) =>
      LET c == CHOOSE x \in ConnsOf(sid) : \A y \in ConnsOf(sid) : y <= x
      IN  Open(c) =>
            \A i \in 0..(Len(SegmentsOf(sid)) - 1) :
              \E k \in 1..Len(conns[c].log) : conns[c].log[k] = SegmentEvent(i, SegmentsOrdered(sid)[i + 1].timestamp_ms)

\* C15: in every step the sum of a user's usage counters stays or grows by 1,
\* and it grows only in the step that answers an extract request of that user
\* with a result; a step that answers 429 or 500, in particular the settling
\* of an extractor call that failed or whose output cannot be decoded, leaves
\* every sum as it is (a request answered 400 changes nothing at all).
C15_CountOnlyOnSuccess ==
  [][/\ \A u \in Users :
          LET d == TotalExtracts(usage', u) - TotalExtracts(usage, u)
          IN  /\ d \in {0, 1}
              /\ d = 1 => resp' = Reply("extract", u, NULL, 200, "")
     /\ (resp'.op = "extract" /\ resp'.status \in {400, 429, 500}) =>
          \A u \in Users : TotalExtracts(usage', u) = TotalExtracts(usage, u)
     /\ \A u \in Users, notes \in NotesKinds :
          (ExtractReply(u, notes).status \in {400, 429} /\ Extract(u, notes)) =>
            TotalExtracts(usage', u) = TotalExtracts(usage, u)
     /\ \A h \in BagToSet(inflight), outcome \in {"error", "undecodable"} :
          ExtractSettled(h, outcome) => resp'.status = 500 /\ usage' = usage]_vars

\* a free user at the limit was answered 429 while another extract of the
\* user is with the extractor
C15_Witness ==
  /\ resp.op = "extract" /\ resp.status = 429
  /\ plan[resp.user] = "free"
  /\ TotalExtracts(usage, resp.user) = FreeLifetimeLimit
  /\ \E h \in BagToSet(inflight) : h.op = "extract" /\ h.user = resp.user

\* C16: the counted extractions of a user never exceed the plan limit: 5 over
\* all months for free, 50 (ltd, sub_basic) or 100 (fltd, sub_pro) in the
\* current month.
C16_WithinPlanLimit ==
  \A u \in Users :
    IF plan[u] = "free" THEN TotalExtracts(usage, u) <= 5
    ELSE IF plan[u] \in {"ltd", "sub_basic"} THEN Extracts(usage, u, month) <= 50
    ELSE Extracts(usage, u, month) <= 100

\* C17: no usage row disappears and no counter decreases; the step in which
\* an extract request of a user succeeds adds exactly 1 to the counter of
\* (user, current month), creating the row when there is none, and no other
\* step changes a counter.
C17_CounterGrowsByOne ==
  [][/\ \A k \in DOMAIN usage : k \in DOMAIN usage' /\ usage'[k] >= usage[k]
     /\ \A u \in Users, m \in 1..MaxMonth :
          LET success == resp' = Reply("extract", u, NULL, 200, "") /\ m = month
          IN  Extracts(usage', u, m) =
                Extracts(usage, u, m) + (IF success THEN 1 ELSE 0)
     /\ (resp'.op = "extract" /\ resp'.status = 200) =>
          <<resp'.user, month>> \in DOMAIN usage']_vars

\* two extractions of a user have been counted in a month that started
\* without a row, the second while a third request is with the extractor
C17_Witness ==
  /\ ~env.MOCK_MODE
  /\ resp = Reply("extract", resp.user, NULL, 200, "")
  /\ month = 2
  /\ Extracts(usage, resp.user, 2) = 2
  /\ \E h \in BagToSet(inflight) : h.op = "extract" /\ h.user = resp.user

\* C18: a free-plan user never has more than 3 stored meetings.
C18_FreeStorageCap ==
  \A u \in Users : plan[u] = "free" => MeetingCount(u) <= 3

\* C19: when an upload, chunk or import handler answers, fs.unlink has been
\* called for every path its audio file was stored under, whatever the exit.
C19_TempFilesReleased ==
  \A i \in 1..Len(fileRuns) : fileRuns[i].stored \subseteq fileRuns[i].unlinked

\* a chunk for a session that does not exist came with a file, and an upload
\* failed in transcription after its file had been renamed
C19_Witness ==
  \E i, j \in 1..Len(fileRuns) :
    /\ fileRuns[i] = FileRun("chunk", 404, {"temp"}, {"temp"})
    /\ fileRuns[j].route = "upload" /\ fileRuns[j].status = 500
    /\ fileRuns[j].stored = {"temp", "renamed"}

\* C20: while the trigger exists, an UPDATE of a users row that would change
\* is_lifetime from 1 to 0 fails with the trigger's error and leaves plan and
\* is_lifetime of every row as they were.
C20_LifetimeFlagProtected ==
  [][\A u \in Users, p \in Plans :
       (protect_lifetime_flag /\ is_lifetime[u] = 1 /\ UpdateUsers(u, p, 0)) =>
         /\ resp' = SqlError(u)
         /\ plan' = plan
         /\ is_lifetime' = is_lifetime]_vars

\* an UPDATE that would have cleared the flag of a lifetime user and set the
\* plan to free has failed
C20_Witness ==
  /\ resp.op = "update_users" /\ resp.error = "Cannot clear is_lifetime flag."
  /\ protect_lifetime_flag
  /\ is_lifetime[resp.user] = 1
  /\ plan[resp.user] = "ltd"

\* C21: POST /api/admin/upgrade changes is_lifetime of a row from 1 to 0 only
\* when force is passed; without force such a request is answered 409 and
\* changes nothing; an answer of 200, 404 or 500 leaves the trigger installed,
\* whether or not it was dropped for the UPDATE.
C21_AdminOverride ==
  [][resp'.op = "upgrade" =>
     \A u \in {resp'.user}, known \in BOOLEAN, p \in Plans, force \in BOOLEAN,
        sql \in SqlOutcomes :
       AdminUpgrade(u, known, p, force, sql) =>
         /\ (is_lifetime[u] = 1 /\ is_lifetime'[u] = 0) => force
         /\ (known /\ is_lifetime[u] = 1 /\ p \notin {"ltd", "fltd"} /\ ~force) =>
              /\ resp'.status = 409
              /\ UNCHANGED <<plan, is_lifetime, protect_lifetime_flag>>
         /\ resp'.status \in {200, 404, 500} => protect_lifetime_flag']_vars

\* a forced downgrade of a lifetime user was answered 200 and the trigger is
\* installed
C21_Witness ==
  /\ resp.op = "upgrade" /\ resp.status = 200
  /\ is_lifetime[resp.user] = 0
  /\ plan[resp.user] = "free"
  /\ \E v \in Users : is_lifetime[v] = 1
  /\ protect_lifetime_flag

\* C22: a webhook event leaves plan, is_lifetime, subscription_status and
\* stripe_subscription_id of every user whose is_lifetime is 1 as they were.
C22_WebhookKeepsLifetimeRow ==
  [][resp' = WebhookReceived =>
       \A u \in Users :
         is_lifetime[u] = 1 =>
           /\ plan'[u] = plan[u]
           /\ is_lifetime'[u] = 1
           /\ subscription_status'[u] = subscription_status[u]
           /\ stripe_subscription_id'[u] = stripe_subscription_id[u]]_vars

\* what a reply shows to the client: the id is part of the request
Payload(r) == [r EXCEPT !.sid = NULL]

KeywordSet(text) == {KeywordTokens(text)[i] : i \in 1..Len(KeywordTokens(text))}

\* C24: a memory-hints request changes nothing; its answer holds at most 3
\* hints, and each hint names a meeting of the requesting user whose notes
\* share at least 2 keywords with the last 24 segments of the session.
C24_MemoryHintsReadOnly ==
  /\ [](\A u \in Users, sid \in SessionIds :
          getOwnedSession(sid, u) # NULL =>
            LET hints == MemoryHintsList(u, sid)
                recent == KeywordSet(JoinSpace(TextsOf(RecentSegments(sid))))
            IN  /\ Len(hints) <= 3
                /\ \A i \in 1..Len(hints) :
                     LET m == meetings[hints[i].meeting_id]
                     IN  /\ m.user_id = u
                         /\ Cardinality(recent \cap KeywordSet(m.raw_notes)) >= 2)
  /\ [][vars' # vars =>
         \A u \in Users, sid \in RequestIds : ~MemoryHints(u, sid)]_vars

\* a user gets three hints although a fourth meeting of that user and a
\* meeting of the other user share two keywords with the segments
C24_Witness ==
  \E u \in Users, sid \in SessionIds :
    /\ getOwnedSession(sid, u) # NULL
    /\ Len(MemoryHintsList(u, sid)) = 3
    /\ LET recent == KeywordSet(JoinSpace(TextsOf(RecentSegments(sid))))
           matching == {m \in MeetingIds :
                         Cardinality(recent \cap KeywordSet(meetings[m].raw_notes)) >= 2}
       IN  /\ Cardinality({m \in matching : meetings[m].user_id = u}) = 4
           /\ \E m \in matching : meetings[m].user_id # u

\* C25: for every extraction record obj, whatever its strings hold,
\* safeJsonParse(JSON.stringify(obj)) returns a value equal to obj.
C25_RoundTrip ==
  result # NoResult =>
    \A obj \in ExtractionRecords :
      rawText = JSONstringify(obj) => result = Returned(obj)

\* C26: for every extraction record obj, its serialization with a comma put
\* directly before a closing bracket, bare, fenced or inside prose, is
\* decoded to a value equal to obj.
C26_TrailingCommaDropped ==
  result # NoResult =>
    \A c \in TrailingCommaCases : rawText = c.text => result = Returned(c.obj)

\* C27: safeJsonParse returns an object or throws, and it throws when the
\* text has no opening brace with a closing brace after it.
C27_ObjectOrThrow ==
  result # NoResult =>
    /\ result.ok => result.v.t = "obj"
    /\ (~\E i, j \in 1..Len(rawText) :
           i < j /\ rawText[i] = "{" /\ rawText[j] = "}") => ~result.ok

\* the elements of a sequence
Range(s) == {s[i] : i \in 1..Len(s)}

\* the keyword tokens of the notes of meeting m
Keywords(m) == extractKeywords(toLowerCase(meetings[m].raw_notes))

\* the keyword tokens meeting mid shares with meeting p, in the order of mid
SharedWith(mid, p) == FilterIncluded(Keywords(mid), Keywords(p))

\* the union of the tokens shared with each of the prior meetings that share
\* two or more, prior by prior
RECURSIVE SharedUnion(_, _)
SharedUnion(mid, priors) ==
  IF priors = <<>> THEN <<>>
  ELSE (IF Len(SharedWith(mid, Head(priors))) >= 2
        THEN SharedWith(mid, Head(priors)) ELSE <<>>)
       \o SharedUnion(mid, Tail(priors))

\* the Recurring Topics cards of a list of insights
RecurringTopics(insights) == SelectSeq(insights, LAMBDA c : c.type = "repeated_topics")

\* C28: for a meeting with prior meetings, the insights hold a Recurring
\* Topics card exactly when some prior meeting shares two keyword tokens or
\* more with it, and the card lists the first six distinct tokens of the
\* union of the tokens shared with each such prior meeting; for the sprint
\* review whose only prior is the sprint planning the card lists both
\* dashboard and authentication.
C28_RecurringTopics ==
  \A u \in Users, mid \in MeetingIds :
    getOwnedMeeting(mid, u) # NULL /\ OtherMeetings(u, mid) # <<>> =>
      LET priors == OtherMeetings(u, mid)
          cards == RecurringTopics(InsightsList(u, mid))
      IN  /\ Len(cards) = 1 <=>
               \E i \in 1..Len(priors) : Len(SharedWith(mid, priors[i])) >= 2
          /\ Len(cards) = 0 <=>
               ~ \E i \in 1..Len(priors) : Len(SharedWith(mid, priors[i])) >= 2
          /\ Len(cards) = 1 =>
               cards[1].topics = Take(Distinct(SharedUnion(mid, priors)), 6)
          /\ /\ meetings[mid].raw_notes = SprintReviewNotes
             /\ Len(priors) = 1
             /\ meetings[priors[1]].raw_notes = SprintPlanningNotes
             => /\ Len(cards) = 1
                /\ {"dashboard", "authentication"} \subseteq Range(cards[1].topics)

\* the meetings of u created before meeting mid
CreatedBefore(u, mid) ==
  { k \in MeetingIds : /\ meetings[k].user_id = u
                       /\ meetings[k].created_at < meetings[mid].created_at }

\* C29: for a meeting whose owner has no meeting created before it, the
\* insights are empty and whatchanged answers has_prior false; a prior that
\* whatchanged names is another meeting of the same owner, created before
\* the meeting and not before any other meeting of the owner created before
\* it.
C29_FirstMeetingHasNoPrior ==
  \A u \in Users, mid \in MeetingIds :
    getOwnedMeeting(mid, u) # NULL =>
      /\ CreatedBefore(u, mid) = {} =>
           /\ InsightsList(u, mid) = <<>>
           /\ ~has_prior(u, mid)
      /\ \A p \in PriorCandidates(u, mid) :
           /\ meetings[p].user_id = u
           /\ p # mid
           /\ p \in CreatedBefore(u, mid)
           /\ \A k \in CreatedBefore(u, mid) :
                meetings[k].created_at <= meetings[p].created_at

\* the field is a non-negative integer written in decimal digits
IsNonNegativeInteger(field) ==
  field # <<>> /\ \A i \in 1..Len(field) : field[i] \in Digits

\* what the claim allows as the timestamp ts of a chunk sent with the field:
\* the value of a non-negative integer, never a negative number, and the
\* reading of the clock only when the field is missing or gives that value
Honours(field, ts) ==
  /\ IsNonNegativeInteger(field) => ts = ParseDigits(field, 0)
  /\ ts >= 0
  /\ (field # Undefined /\ ts = DateNow) =>
       IsNonNegativeInteger(field) /\ ParseDigits(field, 0) = DateNow

\* the step stored a segment with timestamp ts and pushed it with the same
StoredAndPushed(ts) ==
  /\ transcript_segments'[Len(transcript_segments')].timestamp_ms = ts
  /\ \A c \in 1..Len(conns) :
       Len(conns'[c].log) > Len(conns[c].log) =>
         conns'[c].log[Len(conns'[c].log)].timestamp_ms = ts

\* C30: a chunk whose timestamp_ms field is a non-negative integer, 0
\* included, is stored and pushed with that value; the clock is read only
\* when the field is missing; no segment is stored with a negative
\* timestamp_ms.
C30_TimestampAsGiven ==
  /\ [](\A i \in 1..Len(transcript_segments) : transcript_segments[i].timestamp_ms >= 0)
  /\ [][/\ \A u \in Users, sid \in RequestIds, field \in TimestampFields :
             (Chunk(u, sid, TRUE, field) /\ vars' # vars) =>
               /\ Len(transcript_segments') > Len(transcript_segments) =>
                    /\ Honours(field,
                         transcript_segments'[Len(transcript_segments')].timestamp_ms)
                    /\ StoredAndPushed(
                         transcript_segments'[Len(transcript_segments')].timestamp_ms)
               /\ inflight' # inflight =>
                    \E h \in BagToSet(inflight') :
                      /\ inflight' = inflight (+) SetToBag({h})
                      /\ Honours(field, h.timestampMs)
        /\ \A h \in BagToSet(inflight), text \in WhisperTexts :
             (ChunkTranscribed(h, TRUE, text)
                /\ Len(transcript_segments') > Len(transcript_segments)) =>
               StoredAndPushed(h.timestampMs)]_vars

\* C31: in mock mode the k-th chunk processed for a session, counted from 0
\* since the start of that session, is stored at index k with the canned
\* text number k mod 20, whatever the other users and sessions do in between.
C31_SessionLocalMockCounter ==
  env.MOCK_MODE =>
    \A sid \in SessionIds :
      LET rows == SegmentsOrdered(sid)
      IN  \A k \in 0..(Len(rows) - 1) :
            /\ rows[k + 1].segment_index = k
            /\ rows[k + 1].text = Trim(MOCK_SEGMENTS(k % MockSegmentCount))

\* the requests of the log answered by limiter l for ip
RequestsOf(l, ip) == SelectSeq(limited, LAMBDA q : q.limiter = l /\ q.ip = ip)

\* what the requests rs should get when the window that began at start holds
\* n requests so far: a request later than the end of the window opens a new
\* one and passes, a request within it passes while the window holds at most
\* max requests
RECURSIVE Allowed(_, _, _, _)
Allowed(rs, l, start, n) ==
  IF rs = <<>> THEN <<>>
  ELSE IF start = NULL \/ Head(rs).at > start + windowMs(l)
  THEN <<TRUE>> \o Allowed(Tail(rs), l, Head(rs).at, 1)
  ELSE <<n + 1 <= max(l)>> \o Allowed(Tail(rs), l, start, n + 1)

\* C32: for each limiter and client IP, exactly the first max requests of a
\* window, which begins with its first request and lasts windowMs, are passed
\* on and the further ones get 429; a request that arrives after the end of
\* the window begins a new window as its first request.
C32_FirstMaxPerWindow ==
  \A l \in Limiters, ip \in IPs :
    LET rs == RequestsOf(l, ip)
    IN  [i \in 1..Len(rs) |-> rs[i].passed] = Allowed(rs, l, NULL, 0)

\* an IP was passed, then refused, then passed again in a new window while
\* another IP was refused in between
C32_Witness ==
  \E l \in Limiters, ip, other \in IPs :
    LET rs == RequestsOf(l, ip)
    IN  /\ ip # other
        /\ \E i, j, k \in 1..Len(rs) :
             i < j /\ j < k /\ rs[i].passed /\ ~rs[j].passed /\ rs[k].passed
        /\ \E i \in 1..Len(RequestsOf(l, other)) : ~RequestsOf(l, other)[i].passed

\* C33: when stopMeeting stops a recorder that has captured audio, the chunk
\* of that recorder is posted before the stop request is sent.
C33_PartialChunkBeforeStop ==
  \A k \in 1..Len(client.requests) :
    client.requests[k].op = "stop" =>
      \A i \in 1..Len(client.recorders) :
        (client.recorders[i].by = "stopMeeting" /\ client.recorders[i].audio) =>
          \E j \in 1..(k - 1) : client.requests[j] = [op |-> "chunk", recorder |-> i]

\* the recorders that are recording
Recording == {i \in 1..Len(client.recorders) : client.recorders[i].state = "recording"}

\* C38: after any sequence of pause and resume clicks at most one recorder is
\* recording, so the timer a pause left behind starts no second cycle after
\* the resume.
C38_OneCaptureCycle == Cardinality(Recording) <= 1

\* C39: the transcript shown by the page holds each segment_index at most
\* once, also after the event stream has reconnected and the server has
\* replayed the stored segments.
C39_SegmentShownOnce ==
  \A i, j \in 1..Len(liveTranscript) : liveTranscript[i] = liveTranscript[j] => i = j

\* C34: a segment row is inserted only while its session is active: a step
\* that adds a row to transcript_segments finds the row's session with status
\* "active", also when the chunk's transcription was in flight at the stop.
C34_SegmentOnlyWhileActive ==
  [][Len(transcript_segments') > Len(transcript_segments) =>
       LET row == transcript_segments'[Len(transcript_segments')]
       IN  live_sessions[row.session_id].status = "active"]_vars

\* C35: each live session produces at most one meeting row: a step of
\* /api/live that adds a meeting row gives it to a session that had no
\* meeting yet, also when two stop requests for the session overlap.
C35_OneMeetingPerSession ==
  [][Len(meetings') > Len(meetings) =>
       \E sid \in 1..Len(live_sessions) :
         /\ live_sessions[sid].meeting_id = NULL
         /\ live_sessions'[sid].meeting_id = Len(meetings')]_vars

\* C36: once a session is completed or failed the server holds no open push
\* connection and no running keepalive timer for it, whether the connection
\* was replaced by a later subscription or accepted while stop was waiting
\* for the extractor.
C36_NothingOpenAfterEnd ==
  \A c \in 1..Len(conns) :
    live_sessions[conns[c].session].status \in {"completed", "failed"} =>
      ~Open(c) /\ ~conns[c].keepaliveTimer

\* C37: after any sequence of signup, admin upgrade (with or without force)
\* and billing webhook events, every user has is_lifetime = 1 exactly when
\* the plan is ltd or fltd.
C37_LifetimeFlagMatchesPlan ==
  \A u \in Users : (is_lifetime[u] = 1) <=> (plan[u] \in {"ltd", "fltd"})

\* user 2, a lifetime user, was downgraded by the admin with force,
\* subscribed to sub_pro, and a later upgrade to a lifetime plan was answered
C37_Witness ==
  /\ plan[2] = "fltd" /\ is_lifetime[2] = 1
  /\ stripe_customer_id[2] # NULL
  /\ subscription_status[2] = "active"
  /\ resp = Reply("upgrade", 2, NULL, 200, "")

====
